---- MODULE Spec2Model ----
(***************************************************************************)
(* State-machine model of nano-banana-mcp-azure-blob.                      *)
(*                                                                         *)
(* src/src/index.ts : class NanoBananaMCP (tool handlers, storage router,  *)
(*                    memory pressure controller, configuration loading)   *)
(*                                                                         *)
(* Every awaited external call (createIfNotExists, fetch, readFile,        *)
(* generateContent, mkdir, upload, writeFile, setImmediate) is a           *)
(* suspension point: the action that issues the call ends there and a      *)
(* later action delivers its outcome.  The synchronous code between two    *)
(* suspension points is one action.                                        *)
(***************************************************************************)
EXTENDS Integers, Sequences, FiniteSets, TLC

VARIABLES
    env,               \* process.env: [apiKey, conn]
    gcAvailable,       \* typeof global.gc === 'function'
    phase,             \* "off" | "boot" | "loadInit" | "serving"
    config,            \* this.config
    genAI,             \* this.genAI !== null
    configSource,      \* this.configSource
    blobServiceClient, \* this.blobServiceClient !== null
    containerClient,   \* this.containerClient: "null" | "client"
    lazyInits,         \* attempts of ensureAzureStorageInitialized so far: 0, 1, 2 or more
    cfgFile,           \* .nano-banana-config.json
    blobs,             \* blobs stored in the remote container
    localFiles,        \* files written to the images directory
    dirExists,         \* images directory exists
    startupLog,        \* what loadConfig did to the remote backend
    inv,               \* per dispatch slot: the invocation in flight
    launcher,          \* the cli wrapper process and the child it supervises
    host               \* the platform, the working and the home directory

vars == <<env, gcAvailable, phase, config, genAI, configSource,
          blobServiceClient, containerClient, lazyInits, cfgFile, blobs, localFiles,
          dirExists, startupLog, inv, launcher, host>>

procVars == <<env, gcAvailable, phase, startupLog, launcher, host>>
cfgVars == <<config, genAI, configSource, cfgFile>>
azVars == <<blobServiceClient, containerClient, lazyInits>>
storeVars == <<blobs, localFiles, dirExists>>

----------------------------------------------------------------------------
(* Bounds *)

MaxParts == 2      \* parts in one model response
MaxRefs == 2       \* reference images in one edit_image request
MaxArgs == 2       \* words on the command line of the wrapper
MaxSignals == 2    \* signals the wrapper process receives
MaxDepth == 2      \* directories in the path of the working directory

----------------------------------------------------------------------------
(* Values *)

Slots == {1, 2}

EnvConnValues == {"none", "envBad", "envGood"}
FileConnValues == {"none", "fileGood"}

\* BlobServiceClient.fromConnectionString throws on a malformed string
WellFormed(conn) == conn \in {"envGood", "fileGood"}

EnvContainerValues == {"envContainer"}

NoConfig == [set |-> FALSE, conn |-> "none", container |-> "none"]
Config(conn, container) == [set |-> TRUE, conn |-> conn, container |-> container]
NoFile == [valid |-> FALSE, conn |-> "none"]
ConfigFile(conn) == [valid |-> TRUE, conn |-> conn]

Tools == {"configure_gemini_token", "generate_image", "edit_image",
          "get_configuration_status", "unknown_tool"}

\* an ImageRef is a string; only its prefix matters to the code
ImageRefs == {"https://img", "http://img", "/img"}
StartsWithHttps(ref) == ref = "https://img"

PartKinds == {"text", "bin"}

\* process.memoryUsage() samples
MemSample(used, total) == [heapUsed |-> used, heapTotal |-> total]
NoSample == MemSample(0, 0)
MemSamples == {MemSample(69, 100), MemSample(70, 100), MemSample(71, 100),
               MemSample(75, 100), MemSample(7, 10)}

NoResult == [kind |-> "none", code |-> "none", cause |-> "none", url |-> <<>>]
OkResult(url) == [kind |-> "ok", code |-> "none", cause |-> "none", url |-> url]
McpError(code, cause) == [kind |-> "error", code |-> code, cause |-> cause, url |-> <<>>]

\* an exception that is no McpError
JsError(cause) == [kind |-> "raw", code |-> "none", cause |-> cause, url |-> <<>>]

\* variant: the handler wraps every error as an internal error
HandlerCatchRewraps(error) == McpError("InternalError", error.cause)

\* variant: the handler throws every error on as it is
HandlerCatchPassesAll(error) == error

\* the catch block of the handler: an McpError is thrown on as it is, any
\* other exception is wrapped as an internal error with its message
HandlerCatch(error) ==
    IF error.kind = "error" THEN error ELSE McpError("InternalError", error.cause)

\* One invocation.  `log` is the history of the current stage of the
\* invocation: "call" (handler entry to the return of the model call),
\* "persist" (processing of the response) and "reclaim" (the catch block
\* and forceAggressiveGC); it restarts when a stage is entered.
IdleInv ==
    [pc |-> "idle", tool |-> "none", id |-> 0, stage |-> "call", log |-> <<>>,
     primary |-> "none", refsLeft |-> 0, refIdx |-> 0, io |-> "none", ioArg |-> "none",
     imageParts |-> <<>>, modelReq |-> <<>>,
     hasResp |-> FALSE, resp |-> <<>>, numBinary |-> 0, k |-> 0, buf |-> 0,
     savedFiles |-> <<>>, memUsage |-> NoSample, gcI |-> 0,
     after |-> NoResult, result |-> NoResult]

Ev(name, n) == <<name, n>>
Log(s, evs) == [s EXCEPT !.log = s.log \o evs]
Enter(s, stage) == [s EXCEPT !.stage = stage, !.log = <<>>]

RECURSIVE SeqsUpTo(_, _)
SeqsUpTo(S, n) ==
    IF n = 0 THEN {<<>>}
    ELSE LET shorter == SeqsUpTo(S, n - 1)
         IN shorter \cup {Append(q, x) : q \in {r \in shorter : Len(r) = n - 1}, x \in S}

----------------------------------------------------------------------------
(* Memory pressure controller *)

\* variant: the loop bound is 2
GCPassesTwo == 3 - 1

GCPasses == 3
UsageThreshold == 70

\* variant: the comparison is >= instead of >
HighUsageInclusive(m) == m.heapUsed * 100 >= 70 * m.heapTotal

\* usagePercent > 70, with usagePercent = heapUsed / heapTotal * 100
HighUsage(m) == m.heapUsed * 100 > UsageThreshold * m.heapTotal

\* checkMemoryAndGC: one pass iff usagePercent > 70 && global.gc
checkMemoryAndGC(s, m, gc) ==
    LET s1 == [Log(s, <<Ev("check", 0)>>) EXCEPT !.memUsage = m]
    IN IF HighUsage(m) /\ gc THEN Log(s1, <<Ev("gc", 0)>>) ELSE s1

\* an invocation as it is resumed: the awaited call is over, and memUsage,
\* a local of checkMemoryAndGC, is gone
Resumed(s) == [s EXCEPT !.memUsage = NoSample, !.io = "none", !.ioArg = "none"]

\* the loop of forceAggressiveGC at its loop test, s.gcI being i
GCLoop(s) ==
    IF s.gcI < GCPasses
    THEN [Log(s, <<Ev("gc", s.gcI + 1)>>) EXCEPT !.pc = "awaitYield"]
    ELSE [s EXCEPT !.pc = "done", !.result = s.after, !.after = NoResult, !.gcI = 0]

\* variant: the loop runs without the `if (global.gc)` guard
forceAggressiveGCUnguarded(s, gc, outcome) ==
    GCLoop([Log(s, <<Ev("aggressive", 0)>>) EXCEPT !.gcI = 0, !.after = outcome])

\* forceAggressiveGC up to its first suspension point; `outcome` is what the
\* caller returns or throws once forceAggressiveGC has completed
forceAggressiveGC(s, gc, outcome) ==
    LET s1 == Log(s, <<Ev("aggressive", 0)>>)
    IN IF gc
       THEN GCLoop([s1 EXCEPT !.gcI = 0, !.after = outcome])
       ELSE [s1 EXCEPT !.pc = "done", !.result = outcome]

\* variant: the callback never resumes the loop
AfterYieldNeverResumes(s) == [s EXCEPT !.pc = "awaitYield"]

\* the setImmediate callback has run: i++ and back to the loop test
AfterYield(s) ==
    GCLoop([Log(s, <<Ev("yield", s.gcI + 1)>>) EXCEPT !.gcI = s.gcI + 1])

----------------------------------------------------------------------------
(* Storage router *)

DefaultContainer == "nano-banana-images"

\* process.env.AZURE_STORAGE_CONTAINER_NAME || 'nano-banana-images'
EnvContainerName(e) == IF e.container = "none" THEN DefaultContainer ELSE e.container

\* variant: the guard does not look at the handle
LazyInitNeededAnyHandle(e, cc) == e.conn # "none"

\* variant: the guard does not look at the environment
LazyInitNeededNoEnvTest(e, cc) == cc = "null"

\* the guard of ensureAzureStorageInitialized
LazyInitNeeded(e, cc) == e.conn # "none" /\ cc = "null"

\* one more attempt of ensureAzureStorageInitialized; the count stops at 2,
\* which stands for two or more
Attempted(n) == IF n < 2 THEN n + 1 ELSE n

\* the guard of initializeAzureStorage
ConfigInitNeeded(cfg) == cfg.set /\ cfg.conn # "none"

\* file name of part k of invocation s: generated-<timestamp>-<random>.png,
\* a fresh name (s.id is the slot the invocation runs in)
FileName(s, k) == <<s.id, k>>

\* the names of finished invocations are never used again: in the stores
\* they are all kept as the one element Older
Older == <<0, 0>>
Settle(store, i) ==
    IF \E n \in store : n[1] = i
    THEN {n \in store : n[1] # i} \cup {Older}
    ELSE store
RemoteUrl(name) == [loc |-> "https", name |-> name]
LocalPath(name) == [loc |-> "path", name |-> name]

\* savedFiles[0].startsWith('https://')
IsAzureUrl(f) == f.loc = "https"

\* variant: savedFiles[0] is returned whatever it is
AzureUrlAny(savedFiles) ==
    IF Len(savedFiles) > 0 THEN savedFiles[1].name ELSE <<>>

\* variant: the first URL among savedFiles is returned
AzureUrlFirstRemote(savedFiles) ==
    IF \E j \in DOMAIN savedFiles : IsAzureUrl(savedFiles[j])
    THEN savedFiles[CHOOSE j \in DOMAIN savedFiles :
                       /\ IsAzureUrl(savedFiles[j])
                       /\ \A h \in 1..(j - 1) : ~IsAzureUrl(savedFiles[h])].name
    ELSE <<>>

\* azureUrl of the result: savedFiles[0] if it is a URL, null otherwise
AzureUrl(savedFiles) ==
    IF Len(savedFiles) > 0 /\ IsAzureUrl(savedFiles[1]) THEN savedFiles[1].name ELSE <<>>

\* variant: the buffer is not released and the base64 data is kept
ReleaseAndScrubKeeps(s) == [s EXCEPT !.k = s.k + 1]

\* imageBuffer = null; part.inlineData.data = ''
ReleaseAndScrub(s) ==
    [Log(s, <<Ev("release", s.k), Ev("scrub", s.k)>>)
        EXCEPT !.buf = 0, !.resp[s.k] = "empty", !.k = s.k + 1]

\* the locals of the try block go out of scope
Unwind(s) ==
    [s EXCEPT !.primary = "none", !.refsLeft = 0, !.refIdx = 0, !.imageParts = <<>>,
              !.modelReq = <<>>, !.hasResp = FALSE, !.resp = <<>>, !.numBinary = 0,
              !.k = 0, !.buf = 0, !.savedFiles = <<>>]

\* variant: the catch block rethrows without calling forceAggressiveGC
CatchBlockNoGC(s, gc, cause) ==
    [Log(Enter(Unwind(s), "reclaim"), <<Ev("catch", 0)>>)
        EXCEPT !.pc = "done", !.result = McpError("InternalError", cause)]

\* the catch block of generateImage / editImage; the McpError it throws
\* goes through the catch block of the handler
CatchBlock(s, gc, cause) ==
    forceAggressiveGC(Log(Enter(Unwind(s), "reclaim"), <<Ev("catch", 0)>>),
                      gc, HandlerCatch(McpError("InternalError", cause)))

\* the else branch of `if (blobUrl)`: writeFile is called for part s.k
FallBackToLocal(s) == [Log(s, <<Ev("write", s.k)>>) EXCEPT !.pc = "awaitWrite"]

\* variant: the handle test is inverted
uploadToAzureBlobInverted(s, cc) ==
    IF cc # "null"
    THEN FallBackToLocal(Log(s, <<Ev("noHandle", s.k)>>))
    ELSE [Log(s, <<Ev("upload", s.k)>>) EXCEPT !.pc = "awaitUpload"]

\* uploadToAzureBlob is called for part s.k: without a handle it returns
\* null at once, with a handle it calls upload
uploadToAzureBlob(s, cc) ==
    IF cc = "null"
    THEN FallBackToLocal(Log(s, <<Ev("noHandle", s.k)>>))
    ELSE [Log(s, <<Ev("upload", s.k)>>) EXCEPT !.pc = "awaitUpload"]

\* variant: the response stays referenced after the loop
DropResponseKeeps(s) == [Enter(s, "reclaim") EXCEPT !.k = 0]

\* response = null, after the loop over the parts
DropResponse(s) ==
    [Log(Enter(s, "reclaim"), <<Ev("drop", 0)>>)
        EXCEPT !.hasResp = FALSE, !.resp = <<>>, !.k = 0]

\* the loop over response parts from part s.k on, up to the next suspension
\* point: text parts are consumed, a binary part is decoded and handed to
\* uploadToAzureBlob, which returns null at once when there is no handle;
\* after the last part the response is dropped and forceAggressiveGC starts
RECURSIVE ProcessParts(_, _, _)
ProcessParts(s, cc, gc) ==
    IF s.k > Len(s.resp)
    THEN forceAggressiveGC(DropResponse(s), gc, OkResult(AzureUrl(s.savedFiles)))
    ELSE IF s.resp[s.k] # "bin"
    THEN ProcessParts([s EXCEPT !.k = s.k + 1], cc, gc)
    ELSE uploadToAzureBlob([Log(s, <<Ev("decode", s.k)>>) EXCEPT !.buf = s.k], cc)

\* variant: the `else` is missing, a part that was uploaded is written too
AfterUploadAlsoWrites(s, ok) ==
    IF ok
    THEN FallBackToLocal([Log(s, <<Ev("uploadOk", s.k)>>)
            EXCEPT !.savedFiles = Append(s.savedFiles, RemoteUrl(FileName(s, s.k)))])
    ELSE FallBackToLocal(Log(s, <<Ev("uploadThrows", s.k)>>))

\* variant: uploadToAzureBlob has no try/catch, the upload error reaches
\* the catch block of the handler
AfterUploadPropagates(s, ok) ==
    IF ok
    THEN ProcessParts(
            ReleaseAndScrub([Log(s, <<Ev("uploadOk", s.k)>>)
                EXCEPT !.savedFiles = Append(s.savedFiles, RemoteUrl(FileName(s, s.k)))]),
            containerClient, gcAvailable)
    ELSE CatchBlock(s, gcAvailable, "upload")

\* upload has returned or thrown for part s.k: the URL is recorded, or
\* uploadToAzureBlob returns null and the caller falls back to writeFile
AfterUpload(s, ok) ==
    IF ok
    THEN ProcessParts(
            ReleaseAndScrub([Log(s, <<Ev("uploadOk", s.k)>>)
                EXCEPT !.savedFiles = Append(s.savedFiles, RemoteUrl(FileName(s, s.k)))]),
            containerClient, gcAvailable)
    ELSE FallBackToLocal(Log(s, <<Ev("uploadThrows", s.k)>>))

----------------------------------------------------------------------------
(* generate_image / edit_image up to the remote model call *)

PrimaryPart == <<"img", 0>>
RefPart(j) == <<"img", j>>
PromptPart == <<"text", 0>>

\* variant: every reference with a URL scheme is fetched
LoadCallAnyScheme(ref) == IF ref \in {"https://img", "http://img"} THEN "fetch" ELSE "readFile"

\* an image reference is fetched when it starts with 'https://' and read
\* from the filesystem otherwise
LoadCall(ref) == IF StartsWithHttps(ref) THEN "fetch" ELSE "readFile"

\* generateContent is called with `contents`
CallModel(s, contents) ==
    [Log(s, <<Ev("model", 0)>>) EXCEPT !.pc = "awaitModel", !.modelReq = contents]

\* variant: the model is called once the first reference image is handled
LoadRefsStopsEarly(s, refPath) ==
    IF s.refsLeft = 0 \/ s.refIdx >= 1
    THEN CallModel(s, Append(s.imageParts, PromptPart))
    ELSE [Log(s, <<Ev("loadRef", s.refIdx + 1)>>)
            EXCEPT !.pc = "awaitRef", !.refIdx = s.refIdx + 1,
                   !.refsLeft = s.refsLeft - 1, !.io = LoadCall(refPath),
                   !.ioArg = refPath]

\* the loop over referenceImages, up to the next suspension point;
\* s.refsLeft is the number of elements the loop has not reached yet and
\* refPath the element it reaches now
LoadRefs(s, refPath) ==
    IF s.refsLeft = 0
    THEN CallModel(s, Append(s.imageParts, PromptPart))
    ELSE [Log(s, <<Ev("loadRef", s.refIdx + 1)>>)
            EXCEPT !.pc = "awaitRef", !.refIdx = s.refIdx + 1,
                   !.refsLeft = s.refsLeft - 1, !.io = LoadCall(refPath),
                   !.ioArg = refPath]

\* what follows the awaited initialisation of the remote backend:
\* `await this.ensureAzureStorageInitialized()` in generateImage and
\* editImage, `await this.initializeAzureStorage()` in configureGeminiToken
AfterInit(s) ==
    IF s.tool = "configure_gemini_token"
    THEN [s EXCEPT !.pc = "done", !.result = OkResult(<<>>)]
    ELSE IF s.tool = "generate_image"
    THEN CallModel(s, <<PromptPart>>)
    ELSE [Log(s, <<Ev("loadPrimary", 0)>>)
            EXCEPT !.pc = "awaitPrimary", !.io = LoadCall(s.primary),
                   !.ioArg = s.primary]

----------------------------------------------------------------------------
(* The cli wrapper: values *)

\* the two wrapper sources of the repository
Wrappers == {"cli.ts", "part_001"}

\* an element of an argument vector: a flag with its value, or a plain word
Arg(name, value) == <<name, value>>
ExposeGC == Arg("--expose-gc", "")
OptimizeForSize == Arg("--optimize-for-size", "")
MainScript == Arg("index.js", "")

\* `--max-old-space-size=${maxOldSpaceSize}`
MaxOldSpaceFlag(size) == Arg("--max-old-space-size=", size)

\* process.argv.slice(2)
ArgWords == {Arg("x", ""), Arg("y", "")}

\* process.env.MAX_OLD_SPACE_SIZE: undefined, the empty string, or a size
HeapEnvValues == {"undefined", "", "400"}

Signals == {"SIGINT", "SIGTERM"}

\* exit code of a child: null when a signal terminated it
NullCode == "null"
ExitCodes == {NullCode, "0", "1"}

NoLauncher ==
    [wrapper |-> "none", state |-> "none", gc |-> FALSE, argv |-> <<>>,
     heapEnv |-> "undefined", spawns |-> 0, childArgs |-> <<>>,
     childStdio |-> "none", childEnv |-> "none", child |-> "none",
     childCode |-> NullCode, mainIn |-> "none", forwarding |-> FALSE,
     received |-> <<>>, killed |-> <<>>, exited |-> FALSE, exitCode |-> "none",
     exitSignal |-> "none"]

----------------------------------------------------------------------------
(* The images directory: values *)

\* os.platform()
Platforms == {"win32", "linux", "darwin"}

\* an absolute path is the sequence of its components: '/usr/lib' is
\* <<"usr", "lib">> and '/' is <<>>
DirNames == {"usr", "opt", "var", "usrlocal", "home"}

\* os.homedir()
HomeDirs == {<<"home", "u">>, <<"root">>}

\* path.join(dir, ...names)
Join(dir, names) == dir \o names

NoHost == [platform |-> "none", cwd |-> <<>>, home |-> <<>>, imagesDir |-> <<>>]

----------------------------------------------------------------------------
(* Startup *)

Init ==
    /\ env \in [apiKey : BOOLEAN, conn : EnvConnValues, container : EnvContainerValues]
    /\ gcAvailable \in BOOLEAN
    /\ phase = "boot"
    /\ config = NoConfig
    /\ genAI = FALSE
    /\ configSource = "not_configured"
    /\ blobServiceClient = FALSE
    /\ containerClient = "null"
    /\ lazyInits = 0
    /\ cfgFile \in {NoFile} \cup {ConfigFile(c) : c \in FileConnValues}
    /\ blobs = {}
    /\ localFiles = {}
    /\ dirExists = FALSE
    /\ startupLog = <<>>
    /\ inv = [i \in Slots |-> IdleInv]
    /\ launcher = NoLauncher
    /\ host = NoHost

\* the configuration loadConfig resolves: environment first, then the file
ResolvedConfig(e, file) ==
    IF e.apiKey THEN Config(e.conn, EnvContainerName(e))
    ELSE IF file.valid THEN Config(file.conn, DefaultContainer)
    ELSE NoConfig

\* variant: the config file is looked at first
ResolvedSourceFileFirst(e, file) ==
    IF file.valid THEN "config_file"
    ELSE IF e.apiKey THEN "environment"
    ELSE "not_configured"

ResolvedSource(e, file) ==
    IF e.apiKey THEN "environment"
    ELSE IF file.valid THEN "config_file"
    ELSE "not_configured"

\* run(): loadConfig up to the createIfNotExists call of
\* initializeAzureStorage, or to its end when that call is not made
loadConfig ==
    /\ phase = "boot"
    /\ config' = ResolvedConfig(env, cfgFile)
    /\ genAI' = config'.set
    /\ configSource' = ResolvedSource(env, cfgFile)
    /\ IF ConfigInitNeeded(config')
       THEN IF WellFormed(config'.conn)
            THEN /\ blobServiceClient' = TRUE
                 /\ containerClient' = "client"
                 /\ lazyInits' = lazyInits
                 /\ startupLog' = <<Ev("construct", 0), Ev("createCall", 0)>>
                 /\ phase' = "loadInit"
            ELSE /\ UNCHANGED azVars
                 /\ startupLog' = <<Ev("constructThrows", 0)>>
                 /\ phase' = "serving"
       ELSE /\ UNCHANGED azVars
            /\ startupLog' = <<>>
            /\ phase' = "serving"
    /\ UNCHANGED <<env, gcAvailable, cfgFile, storeVars, inv, launcher, host>>

\* createIfNotExists of initializeAzureStorage returns or throws; the catch
\* block only logs; run() then connects the transport
loadConfigInitReturns(ok) ==
    /\ phase = "loadInit"
    /\ startupLog' = Append(startupLog, Ev(IF ok THEN "createOk" ELSE "createThrows", 0))
    /\ phase' = "serving"
    /\ UNCHANGED <<env, gcAvailable, cfgVars, azVars, storeVars, inv, launcher, host>>

----------------------------------------------------------------------------
(* CallToolRequestSchema handler *)

\* variant: checkMemoryAndGC is called after ensureAzureStorageInitialized
EnterTryCheckLast(s, m) ==
    checkMemoryAndGC(Log(s, <<Ev("ensureInit", 0)>>), m, gcAvailable)

\* after the configuration check: checkMemoryAndGC, then the try block is
\* entered and ensureAzureStorageInitialized is called
EnterTry(s, m) ==
    Log(checkMemoryAndGC(s, m, gcAvailable), <<Ev("ensureInit", 0)>>)

Dispatchable(i) ==
    /\ phase = "serving"
    /\ inv[i].pc = "idle"

NewInv(i, tool) == [IdleInv EXCEPT !.tool = tool, !.id = i]

\* generateImage / editImage from the entry of the handler to the first
\* suspension point
CallImageTool(i, tool, imagePath, numRefs, m) ==
    /\ Dispatchable(i)
    /\ tool \in {"generate_image", "edit_image"}
    /\ tool = "generate_image" => imagePath = "none" /\ numRefs = 0
    /\ tool = "edit_image" => imagePath \in ImageRefs
    /\ LET s0 == [NewInv(i, tool) EXCEPT !.primary = imagePath, !.refsLeft = numRefs]
       IN IF ~(config.set /\ genAI)
          THEN /\ inv' = [inv EXCEPT ![i] =
                            [s0 EXCEPT !.pc = "done",
                                       !.result = HandlerCatch(
                                            McpError("InvalidRequest", "notConfigured"))]]
               /\ UNCHANGED <<config, azVars>>
          ELSE LET s2 == EnterTry(s0, m)
               IN IF LazyInitNeeded(env, containerClient)
                  THEN /\ config' = [config EXCEPT !.conn = env.conn,
                                                   !.container = EnvContainerName(env)]
                       /\ lazyInits' = Attempted(lazyInits)
                       /\ IF WellFormed(env.conn)
                          THEN /\ blobServiceClient' = TRUE
                               /\ containerClient' = "client"
                               /\ inv' = [inv EXCEPT ![i] =
                                    [Log(s2, <<Ev("construct", 0), Ev("createCall", 0)>>)
                                        EXCEPT !.pc = "awaitInit"]]
                          ELSE /\ UNCHANGED <<blobServiceClient, containerClient>>
                               /\ inv' = [inv EXCEPT ![i] =
                                    AfterInit(Log(s2, <<Ev("constructThrows", 0)>>))]
                  ELSE /\ UNCHANGED <<config, azVars>>
                       /\ inv' = [inv EXCEPT ![i] = AfterInit(s2)]
    /\ UNCHANGED <<procVars, genAI, configSource, cfgFile, storeVars>>

\* variant: the initialisation has no try/catch, the error reaches the
\* catch block of the handler
AfterCreatePropagates(s, ok) ==
    IF ok
    THEN AfterInit(Log(s, <<Ev("createOk", 0)>>))
    ELSE CatchBlock(s, gcAvailable, "init")

\* createIfNotExists of ensureAzureStorageInitialized (or of
\* initializeAzureStorage) has returned or thrown: the catch block only logs
AfterCreate(s, ok) ==
    AfterInit(Log(s, <<Ev(IF ok THEN "createOk" ELSE "createThrows", 0)>>))

\* the createIfNotExists call awaited by a tool invocation returns or throws
LazyInitReturns(i, ok) ==
    /\ inv[i].pc = "awaitInit"
    /\ inv' = [inv EXCEPT ![i] = AfterCreate(Resumed(inv[i]), ok)]
    /\ UNCHANGED <<procVars, cfgVars, azVars, storeVars>>

FetchOutcomes == {"ok", "notOk", "throws"}

\* outcomes of a load: only fetch has a response status
LoadOutcomes(call) == IF call = "fetch" THEN FetchOutcomes ELSE {"ok", "throws"}

\* variant: a primary image that failed to load is left out
AfterPrimaryLoadSkips(s, ok, refPath) ==
    IF ok
    THEN LoadRefs([Log(s, <<Ev("primaryLoaded", 0)>>)
                     EXCEPT !.imageParts = <<PrimaryPart>>, !.primary = "none"], refPath)
    ELSE LoadRefs([s EXCEPT !.primary = "none"], refPath)

\* the load of imagePath is over: imageParts starts with the primary image,
\* or the error reaches the catch block
AfterPrimaryLoad(s, ok, refPath) ==
    IF ok
    THEN LoadRefs([Log(s, <<Ev("primaryLoaded", 0)>>)
                     EXCEPT !.imageParts = <<PrimaryPart>>, !.primary = "none"], refPath)
    ELSE CatchBlock(s, gcAvailable, "primary")

\* editImage: the load of imagePath completes
PrimaryReturns(i, outcome, refPath) ==
    /\ inv[i].pc = "awaitPrimary"
    /\ outcome \in LoadOutcomes(inv[i].io)
    /\ inv' = [inv EXCEPT ![i] = AfterPrimaryLoad(Resumed(inv[i]), outcome = "ok", refPath)]
    /\ UNCHANGED <<procVars, cfgVars, azVars, storeVars>>

\* variant: the inner try/catch is missing
AfterRefLoadPropagates(s, ok, refPath) ==
    IF ok
    THEN LoadRefs([Log(s, <<Ev("refOk", s.refIdx)>>)
                     EXCEPT !.imageParts = Append(s.imageParts, RefPart(s.refIdx))], refPath)
    ELSE CatchBlock(s, gcAvailable, "reference")

\* the load of reference image s.refIdx is over: it is pushed to
\* imageParts, or skipped (`continue`), and the loop goes on
AfterRefLoad(s, ok, refPath) ==
    IF ok
    THEN LoadRefs([Log(s, <<Ev("refOk", s.refIdx)>>)
                     EXCEPT !.imageParts = Append(s.imageParts, RefPart(s.refIdx))], refPath)
    ELSE LoadRefs(Log(s, <<Ev("refFailed", s.refIdx)>>), refPath)

\* editImage: the load of one reference image completes
RefReturns(i, outcome, refPath) ==
    /\ inv[i].pc = "awaitRef"
    /\ outcome \in LoadOutcomes(inv[i].io)
    /\ inv' = [inv EXCEPT ![i] = AfterRefLoad(Resumed(inv[i]), outcome = "ok", refPath)]
    /\ UNCHANGED <<procVars, cfgVars, azVars, storeVars>>

----------------------------------------------------------------------------
(* generate_image / edit_image from the remote model call on *)

Responses == SeqsUpTo(PartKinds, MaxParts)

\* number of parts with inlineData in a response
NumBinary(parts) == Cardinality({k \in DOMAIN parts : parts[k] = "bin"})

\* generateContent returns: imageParts is cleared, the images directory is
\* computed and mkdir is called
ModelReturns(i, parts) ==
    /\ inv[i].pc = "awaitModel"
    /\ parts \in Responses
    /\ inv' = [inv EXCEPT ![i] =
                 [Log(Enter(Resumed(inv[i]), "persist"),
                      <<Ev("modelReturned", NumBinary(parts)), Ev("mkdir", 0)>>)
                    EXCEPT !.pc = "awaitMkdir", !.modelReq = <<>>, !.imageParts = <<>>,
                           !.hasResp = TRUE, !.resp = parts, !.numBinary = NumBinary(parts)]]
    /\ UNCHANGED <<procVars, cfgVars, azVars, storeVars>>

\* variant: generateContent is called outside the try block, its error
\* reaches the catch block of the handler directly
ModelThrowsOutsideTry(i) ==
    /\ inv[i].pc = "awaitModel"
    /\ inv' = [inv EXCEPT ![i] =
                 [Resumed(inv[i]) EXCEPT !.pc = "done", !.modelReq = <<>>,
                                         !.result = McpError("InternalError", "model")]]
    /\ UNCHANGED <<procVars, cfgVars, azVars, storeVars>>

\* generateContent throws
ModelThrows(i) ==
    /\ inv[i].pc = "awaitModel"
    /\ inv' = [inv EXCEPT ![i] =
                 CatchBlock(Resumed(inv[i]), gcAvailable, "model")]
    /\ UNCHANGED <<procVars, cfgVars, azVars, storeVars>>

\* variant: an error of mkdir is swallowed and the parts are processed
MkdirReturnsIgnoresFailure(i, ok) ==
    /\ inv[i].pc = "awaitMkdir"
    /\ LET s == Resumed(inv[i])
       IN /\ dirExists' = (dirExists \/ ok)
          /\ inv' = [inv EXCEPT ![i] =
                ProcessParts([(IF ok THEN Log(s, <<Ev("mkdirOk", 0)>>) ELSE s)
                                 EXCEPT !.k = 1],
                             containerClient, gcAvailable)]
    /\ UNCHANGED <<procVars, cfgVars, azVars, blobs, localFiles>>

\* fs.mkdir(imagesDir, {recursive: true}) returns or throws
MkdirReturns(i, ok) ==
    /\ inv[i].pc = "awaitMkdir"
    /\ LET s == Resumed(inv[i])
       IN IF ok
          THEN /\ dirExists' = TRUE
               /\ inv' = [inv EXCEPT ![i] =
                     ProcessParts([Log(s, <<Ev("mkdirOk", 0)>>) EXCEPT !.k = 1],
                                  containerClient, gcAvailable)]
          ELSE /\ dirExists' = dirExists
               /\ inv' = [inv EXCEPT ![i] =
                     CatchBlock(s, gcAvailable, "mkdir")]
    /\ UNCHANGED <<procVars, cfgVars, azVars, blobs, localFiles>>

\* variant: the catch block of uploadToAzureBlob clears the handle
UploadReturnsDropsHandle(i, ok) ==
    /\ inv[i].pc = "awaitUpload"
    /\ LET s == Resumed(inv[i])
           name == FileName(s, s.k)
       IN /\ blobs' = IF ok THEN blobs \cup {name} ELSE blobs
          /\ containerClient' = IF ok THEN containerClient ELSE "null"
          /\ inv' = [inv EXCEPT ![i] = AfterUpload(s, ok)]
    /\ UNCHANGED <<procVars, cfgVars, blobServiceClient, lazyInits, localFiles, dirExists>>

\* blockBlobClient.upload returns (uploadToAzureBlob returns the URL) or
\* throws (uploadToAzureBlob returns null and writeFile is called)
UploadReturns(i, ok) ==
    /\ inv[i].pc = "awaitUpload"
    /\ LET s == Resumed(inv[i])
           name == FileName(s, s.k)
       IN /\ blobs' = IF ok THEN blobs \cup {name} ELSE blobs
          /\ inv' = [inv EXCEPT ![i] = AfterUpload(s, ok)]
    /\ UNCHANGED <<procVars, cfgVars, azVars, localFiles, dirExists>>

\* variant: when writeFile fails the artifacts of the invocation are removed
WriteReturnsRollsBack(i, ok) ==
    /\ inv[i].pc = "awaitWrite"
    /\ LET s == Resumed(inv[i])
           name == FileName(s, s.k)
       IN IF ok
          THEN /\ localFiles' = localFiles \cup {name}
               /\ blobs' = blobs
               /\ inv' = [inv EXCEPT ![i] =
                     ProcessParts(
                        ReleaseAndScrub([Log(s, <<Ev("writeOk", s.k)>>)
                            EXCEPT !.savedFiles = Append(s.savedFiles, LocalPath(name))]),
                        containerClient, gcAvailable)]
          ELSE /\ localFiles' = {n \in localFiles : n[1] # i}
               /\ blobs' = {n \in blobs : n[1] # i}
               /\ inv' = [inv EXCEPT ![i] =
                     CatchBlock(s, gcAvailable, "write")]
    /\ UNCHANGED <<procVars, cfgVars, azVars, dirExists>>

\* variant: an error of writeFile is swallowed and the part is dropped
WriteReturnsIgnoresFailure(i, ok) ==
    /\ inv[i].pc = "awaitWrite"
    /\ LET s == Resumed(inv[i])
           name == FileName(s, s.k)
       IN /\ localFiles' = IF ok THEN localFiles \cup {name} ELSE localFiles
          /\ inv' = [inv EXCEPT ![i] =
                ProcessParts(
                   ReleaseAndScrub(
                      IF ok
                      THEN [Log(s, <<Ev("writeOk", s.k)>>)
                              EXCEPT !.savedFiles = Append(s.savedFiles, LocalPath(name))]
                      ELSE s),
                   containerClient, gcAvailable)]
    /\ UNCHANGED <<procVars, cfgVars, azVars, blobs, dirExists>>

\* fs.writeFile(filePath, imageBuffer) returns or throws
WriteReturns(i, ok) ==
    /\ inv[i].pc = "awaitWrite"
    /\ LET s == Resumed(inv[i])
           name == FileName(s, s.k)
       IN IF ok
          THEN /\ localFiles' = localFiles \cup {name}
               /\ inv' = [inv EXCEPT ![i] =
                     ProcessParts(
                        ReleaseAndScrub([Log(s, <<Ev("writeOk", s.k)>>)
                            EXCEPT !.savedFiles = Append(s.savedFiles, LocalPath(name))]),
                        containerClient, gcAvailable)]
          ELSE /\ localFiles' = localFiles
               /\ inv' = [inv EXCEPT ![i] =
                     CatchBlock(s, gcAvailable, "write")]
    /\ UNCHANGED <<procVars, cfgVars, azVars, blobs, dirExists>>

\* the setImmediate callback awaited by forceAggressiveGC runs
YieldReturns(i) ==
    /\ inv[i].pc = "awaitYield"
    /\ inv' = [inv EXCEPT ![i] = AfterYield(Resumed(inv[i]))]
    /\ UNCHANGED <<procVars, cfgVars, azVars, storeVars>>

----------------------------------------------------------------------------
(* The other tools *)

\* variant: the configuration is assigned before the key is validated
CallConfigureSetsFirst(i, apiKeyEmpty) ==
    /\ Dispatchable(i)
    /\ LET s0 == NewInv(i, "configure_gemini_token")
       IN /\ config' = Config("none", DefaultContainer)
          /\ genAI' = TRUE
          /\ configSource' = "config_file"
          /\ inv' = [inv EXCEPT ![i] =
                IF apiKeyEmpty
                THEN [s0 EXCEPT !.pc = "done",
                                !.result = HandlerCatch(McpError("InvalidParams", "zod"))]
                ELSE [Log(s0, <<Ev("saveConfig", 0)>>) EXCEPT !.pc = "awaitSave"]]
    /\ UNCHANGED <<procVars, cfgFile, azVars, storeVars>>

\* configureGeminiToken up to the writeFile of saveConfig; an empty key
\* fails ConfigSchema.parse, and the ZodError is thrown on as an McpError
CallConfigure(i, apiKeyEmpty) ==
    /\ Dispatchable(i)
    /\ LET s0 == NewInv(i, "configure_gemini_token")
       IN IF apiKeyEmpty
          THEN /\ inv' = [inv EXCEPT ![i] =
                     [s0 EXCEPT !.pc = "done",
                                !.result = HandlerCatch(McpError("InvalidParams", "zod"))]]
               /\ UNCHANGED <<config, genAI, configSource>>
          ELSE /\ config' = Config("none", DefaultContainer)
               /\ genAI' = TRUE
               /\ configSource' = "config_file"
               /\ inv' = [inv EXCEPT ![i] =
                     [Log(s0, <<Ev("saveConfig", 0)>>) EXCEPT !.pc = "awaitSave"]]
    /\ UNCHANGED <<procVars, cfgFile, azVars, storeVars>>

\* the writeFile of saveConfig returns or throws (the error is thrown on as
\* it is); after it initializeAzureStorage runs up to its createIfNotExists
\* call
SaveReturns(i, ok) ==
    /\ inv[i].pc = "awaitSave"
    /\ LET s == Resumed(inv[i])
       IN IF ~ok
          THEN /\ inv' = [inv EXCEPT ![i] =
                     [Log(s, <<Ev("saveThrows", 0)>>)
                        EXCEPT !.pc = "done", !.result = HandlerCatch(JsError("save"))]]
               /\ UNCHANGED <<cfgFile, azVars>>
          ELSE /\ cfgFile' = ConfigFile("none")
               /\ IF ConfigInitNeeded(config)
                  THEN IF WellFormed(config.conn)
                       THEN /\ blobServiceClient' = TRUE
                            /\ containerClient' = "client"
                            /\ lazyInits' = lazyInits
                            /\ inv' = [inv EXCEPT ![i] =
                                 [Log(s, <<Ev("saveOk", 0), Ev("construct", 0), Ev("createCall", 0)>>)
                                    EXCEPT !.pc = "awaitInit"]]
                       ELSE /\ UNCHANGED azVars
                            /\ inv' = [inv EXCEPT ![i] =
                                 AfterInit(Log(s, <<Ev("saveOk", 0), Ev("constructThrows", 0)>>))]
                  ELSE /\ UNCHANGED azVars
                       /\ inv' = [inv EXCEPT ![i] = AfterInit(Log(s, <<Ev("saveOk", 0)>>))]
    /\ UNCHANGED <<procVars, config, genAI, configSource, storeVars>>

\* getConfigurationStatus, and the default branch of the switch
CallOther(i, tool) ==
    /\ Dispatchable(i)
    /\ tool \in {"get_configuration_status", "unknown_tool"}
    /\ inv' = [inv EXCEPT ![i] =
                 [NewInv(i, tool) EXCEPT !.pc = "done",
                    !.result = IF tool = "unknown_tool"
                               THEN HandlerCatch(McpError("MethodNotFound", "unknownTool"))
                               ELSE OkResult(<<>>)]]
    /\ UNCHANGED <<procVars, cfgVars, azVars, storeVars>>

\* the result or the typed error is handed back to the caller
Respond(i) ==
    /\ inv[i].pc = "done"
    /\ inv' = [inv EXCEPT ![i] = IdleInv]
    /\ blobs' = Settle(blobs, i)
    /\ localFiles' = Settle(localFiles, i)
    /\ UNCHANGED <<procVars, cfgVars, azVars, dirExists>>

----------------------------------------------------------------------------
(* Specification: requests are dispatched one at a time *)

Handler(i) ==
    \/ \E tool \in {"generate_image", "edit_image"}, imagePath \in ImageRefs \cup {"none"},
          numRefs \in 0..MaxRefs, m \in MemSamples :
            CallImageTool(i, tool, imagePath, numRefs, m)
    \/ \E ok \in BOOLEAN : LazyInitReturns(i, ok)
    \/ \E outcome \in FetchOutcomes, refPath \in ImageRefs : PrimaryReturns(i, outcome, refPath)
    \/ \E outcome \in FetchOutcomes, refPath \in ImageRefs : RefReturns(i, outcome, refPath)
    \/ \E parts \in Responses : ModelReturns(i, parts)
    \/ ModelThrows(i)
    \/ \E ok \in BOOLEAN : MkdirReturns(i, ok)
    \/ \E ok \in BOOLEAN : UploadReturns(i, ok)
    \/ \E ok \in BOOLEAN : WriteReturns(i, ok)
    \/ YieldReturns(i)
    \/ \E apiKeyEmpty \in BOOLEAN : CallConfigure(i, apiKeyEmpty)
    \/ \E ok \in BOOLEAN : SaveReturns(i, ok)
    \/ \E tool \in Tools : CallOther(i, tool)
    \/ Respond(i)

Next ==
    \/ loadConfig
    \/ \E ok \in BOOLEAN : loadConfigInitReturns(ok)
    \/ Handler(1)

Spec == Init /\ [][Next]_vars

\* an awaited call of invocation i returns or throws, or a setImmediate
\* callback of its forceAggressiveGC runs
Returns(i) ==
    \/ \E ok \in BOOLEAN : LazyInitReturns(i, ok)
    \/ \E outcome \in FetchOutcomes, refPath \in ImageRefs : PrimaryReturns(i, outcome, refPath)
    \/ \E outcome \in FetchOutcomes, refPath \in ImageRefs : RefReturns(i, outcome, refPath)
    \/ \E parts \in Responses : ModelReturns(i, parts)
    \/ ModelThrows(i)
    \/ \E ok \in BOOLEAN : MkdirReturns(i, ok)
    \/ \E ok \in BOOLEAN : UploadReturns(i, ok)
    \/ \E ok \in BOOLEAN : WriteReturns(i, ok)
    \/ YieldReturns(i)

\* the image tools alone, with one memory sample below the threshold of
\* checkMemoryAndGC and one above it
ImageHandler(i) ==
    \/ \E tool \in {"generate_image", "edit_image"}, imagePath \in ImageRefs \cup {"none"},
          numRefs \in 0..MaxRefs, m \in {MemSample(69, 100), MemSample(71, 100)} :
            CallImageTool(i, tool, imagePath, numRefs, m)
    \/ Returns(i)
    \/ Respond(i)

ImageNext ==
    \/ loadConfig
    \/ \E ok \in BOOLEAN : loadConfigInitReturns(ok)
    \/ ImageHandler(1)

\* every external call eventually returns or throws, and the event loop
\* runs the callbacks it has queued
FairSpec == Init /\ [][ImageNext]_vars /\ WF_vars(Returns(1))

TypeOK ==
    /\ phase \in {"off", "boot", "loadInit", "serving"}
    /\ containerClient \in {"null", "client"}
    /\ \A i \in Slots : Len(inv[i].resp) <= MaxParts

----------------------------------------------------------------------------
(* Specification: two requests in flight.  The transport hands a request to
   the handler as it arrives, so a second invocation can start while the
   first is suspended at an awaited call. *)

\* the response the model gives in this specification
OneImage == <<"bin">>

ConcHandler(i) ==
    \/ \E tool \in {"generate_image", "edit_image"}, imagePath \in {"/img", "none"} :
            CallImageTool(i, tool, imagePath, 0, MemSample(69, 100))
    \/ \E ok \in BOOLEAN : LazyInitReturns(i, ok)
    \/ \E outcome \in {"ok", "throws"} : PrimaryReturns(i, outcome, "/img")
    \/ ModelReturns(i, OneImage)
    \/ ModelThrows(i)
    \/ \E ok \in BOOLEAN : MkdirReturns(i, ok)
    \/ \E ok \in BOOLEAN : UploadReturns(i, ok)
    \/ \E ok \in BOOLEAN : WriteReturns(i, ok)
    \/ YieldReturns(i)
    \/ Respond(i)

ConcNext ==
    \/ loadConfig
    \/ \E ok \in BOOLEAN : loadConfigInitReturns(ok)
    \/ \E i \in Slots : ConcHandler(i)

ConcSpec == Init /\ [][ConcNext]_vars

----------------------------------------------------------------------------
(* The cli wrapper *)

mainVars == <<env, config, genAI, configSource, blobServiceClient, containerClient,
              lazyInits, cfgFile, blobs, localFiles, dirExists, startupLog, inv, host>>

\* the wrapper process is started: `node [--expose-gc] cli.js ...args`
Bootstrapping(wrapper, gc, argv, heapEnv) ==
    [NoLauncher EXCEPT !.wrapper = wrapper, !.state = "Bootstrapping", !.gc = gc,
                       !.argv = argv, !.heapEnv = heapEnv]

LauncherInit ==
    /\ launcher \in {Bootstrapping(w, gc, argv, h) :
                        w \in Wrappers, gc \in BOOLEAN,
                        argv \in SeqsUpTo(ArgWords, MaxArgs), h \in HeapEnvValues}
    /\ env = [apiKey |-> FALSE, conn |-> "none", container |-> "envContainer"]
    /\ gcAvailable = FALSE
    /\ phase = "off"
    /\ config = NoConfig
    /\ genAI = FALSE
    /\ configSource = "not_configured"
    /\ blobServiceClient = FALSE
    /\ containerClient = "null"
    /\ lazyInits = 0
    /\ cfgFile = NoFile
    /\ blobs = {}
    /\ localFiles = {}
    /\ dirExists = FALSE
    /\ startupLog = <<>>
    /\ inv = [i \in Slots |-> IdleInv]
    /\ host = NoHost

\* variant: the test is inverted
needsRestartInverted(l) == l.gc

\* typeof global.gc !== 'function'
needsRestart(l) == ~l.gc

\* process.env.MAX_OLD_SPACE_SIZE || '512'
DefaultHeap == "512"
maxOldSpaceSize(l) == IF l.heapEnv \in {"undefined", ""} THEN DefaultHeap ELSE l.heapEnv

\* the node flags each wrapper puts before the main script
nodeFlags(l) ==
    IF l.wrapper = "part_001"
    THEN <<ExposeGC, MaxOldSpaceFlag(maxOldSpaceSize(l)), OptimizeForSize>>
    ELSE <<ExposeGC>>

\* node makes global.gc a function iff --expose-gc precedes the script
ExposesGC(args) ==
    \E j \in DOMAIN args :
        /\ args[j] = ExposeGC
        /\ \A h \in 1..(j - 1) : args[h] # MainScript

\* the body of the wrapper: either the main program is imported into this
\* process, or a child is spawned and the exit and signal handlers are set
Launch ==
    /\ launcher.state = "Bootstrapping"
    /\ phase = "off"
    /\ IF ~needsRestart(launcher)
       THEN /\ launcher' = [launcher EXCEPT !.state = "Direct", !.mainIn = "parent"]
            /\ gcAvailable' = launcher.gc
       ELSE LET args == nodeFlags(launcher) \o <<MainScript>> \o launcher.argv
            IN /\ launcher' = [launcher EXCEPT
                                  !.state = "Supervising", !.spawns = launcher.spawns + 1,
                                  !.childArgs = args, !.childStdio = "inherit",
                                  !.childEnv = "process.env", !.child = "running",
                                  !.mainIn = "child", !.forwarding = TRUE]
               /\ gcAvailable' = ExposesGC(args)
    /\ phase' = "boot"
    /\ UNCHANGED mainVars

\* variant: SIGTERM is forwarded as SIGINT
ForwardedSignalInt(sig) == "SIGINT"

\* () => child.kill('SIGINT'), () => child.kill('SIGTERM')
ForwardedSignal(sig) == sig

\* variant: the wrapper forwards the signal and then terminates itself
ParentSignalTerminates(sig) ==
    /\ launcher.state \in {"Direct", "Supervising"}
    /\ ~launcher.exited
    /\ Len(launcher.received) < MaxSignals
    /\ launcher' = [launcher EXCEPT !.received = Append(launcher.received, sig),
                                    !.killed = Append(launcher.killed, ForwardedSignal(sig)),
                                    !.exited = TRUE, !.exitSignal = sig]
    /\ UNCHANGED <<gcAvailable, phase, mainVars>>

\* the wrapper process receives SIGINT or SIGTERM: with the handlers set the
\* signal goes to the child, without them node terminates the process
ParentSignal(sig) ==
    /\ launcher.state \in {"Direct", "Supervising"}
    /\ ~launcher.exited
    /\ Len(launcher.received) < MaxSignals
    /\ launcher' =
          IF launcher.forwarding
          THEN [launcher EXCEPT !.received = Append(launcher.received, sig),
                                !.killed = Append(launcher.killed, ForwardedSignal(sig))]
          ELSE [launcher EXCEPT !.received = Append(launcher.received, sig),
                                !.exited = TRUE, !.exitSignal = sig]
    /\ UNCHANGED <<gcAvailable, phase, mainVars>>

\* the child terminates: with an exit code, or by a signal (code null)
ChildExits(code) ==
    /\ launcher.child = "running"
    /\ ~launcher.exited
    /\ launcher' = [launcher EXCEPT !.child = "exited", !.childCode = code]
    /\ UNCHANGED <<gcAvailable, phase, mainVars>>

\* variant: the exit code of the child is dropped
ParentExitCodeZero(code) == "0"

\* code || 0
ParentExitCode(code) == IF code \in {NullCode, "0"} THEN "0" ELSE code

\* child.on('exit', (code) => process.exit(code || 0))
OnChildExit ==
    /\ launcher.child = "exited"
    /\ ~launcher.exited
    /\ launcher' = [launcher EXCEPT !.exited = TRUE,
                                    !.exitCode = ParentExitCode(launcher.childCode)]
    /\ UNCHANGED <<gcAvailable, phase, mainVars>>

LauncherNext ==
    \/ Launch
    \/ \E sig \in Signals : ParentSignal(sig)
    \/ \E code \in ExitCodes : ChildExits(code)
    \/ OnChildExit

LauncherSpec == LauncherInit /\ [][LauncherNext]_vars

\* the event loop of the wrapper delivers the 'exit' event of the child to
\* the listener set by child.on('exit', ...)
LauncherFairSpec == LauncherSpec /\ WF_vars(OnChildExit)

----------------------------------------------------------------------------
(* The images directory *)

\* cwd.startsWith('/' + name + '/'): process.cwd() has no trailing slash,
\* so the name must be followed by a further component
StartsWithDir(cwd, name) == Len(cwd) >= 2 /\ cwd[1] = name

getImagesDirectory(h) ==
    IF h.platform = "win32"
    THEN Join(h.home, <<"Documents", "nano-banana-images">>)
    ELSE IF StartsWithDir(h.cwd, "usr") \/ StartsWithDir(h.cwd, "opt")
               \/ StartsWithDir(h.cwd, "var")
    THEN Join(h.home, <<"nano-banana-images">>)
    ELSE Join(h.cwd, <<"generated_imgs">>)

DirInit ==
    /\ host \in [platform : Platforms, cwd : SeqsUpTo(DirNames, MaxDepth),
                  home : HomeDirs, imagesDir : {<<>>}]
    /\ env = [apiKey |-> FALSE, conn |-> "none", container |-> "envContainer"]
    /\ gcAvailable = FALSE
    /\ phase = "off"
    /\ config = NoConfig
    /\ genAI = FALSE
    /\ configSource = "not_configured"
    /\ blobServiceClient = FALSE
    /\ containerClient = "null"
    /\ lazyInits = 0
    /\ cfgFile = NoFile
    /\ blobs = {}
    /\ localFiles = {}
    /\ dirExists = FALSE
    /\ startupLog = <<>>
    /\ inv = [i \in Slots |-> IdleInv]
    /\ launcher = NoLauncher

\* const imagesDir = this.getImagesDirectory()
ComputeImagesDir ==
    /\ host.imagesDir = <<>>
    /\ host' = [host EXCEPT !.imagesDir = getImagesDirectory(host)]
    /\ UNCHANGED <<env, gcAvailable, phase, config, genAI, configSource, azVars,
                   cfgFile, storeVars, startupLog, inv, launcher>>

DirNext == ComputeImagesDir

DirSpec == DirInit /\ [][DirNext]_vars

----------------------------------------------------------------------------
(* Properties *)

ImageTools == {"generate_image", "edit_image"}

Range(q) == {q[j] : j \in DOMAIN q}
Has(log, e) == \E j \in DOMAIN log : log[j] = e
HasName(log, name) == \E j \in DOMAIN log : log[j][1] = name
Count(log, e) == Cardinality({j \in DOMAIN log : log[j] = e})
CountName(log, name) == Cardinality({j \in DOMAIN log : log[j][1] = name})

\* every occurrence of b in log has an occurrence of a before it
Precedes(log, a, b) ==
    \A j \in DOMAIN log : log[j] = b => \E h \in 1..(j - 1) : log[h] = a

\* the event `name` enters the log of slot i in this step
Logged(i, name) == HasName(inv'[i].log, name) /\ ~HasName(inv[i].log, name)

PartIds == 1..MaxParts

\* what the invocation hands back: decided when forceAggressiveGC starts,
\* handed back when it is over
Outcome(s) == IF s.pc = "done" THEN s.result ELSE s.after

\* the invocation got past ensureConfigured
PassedConfigCheck(s) == s.result.cause # "notConfigured"

\* an invocation moves through its stages in order
StageOrder ==
    \A i \in Slots :
        inv'[i].stage # inv[i].stage =>
            \/ inv[i].stage = "call" /\ inv'[i].stage \in {"persist", "reclaim"}
            \/ inv[i].stage = "persist" /\ inv'[i].stage = "reclaim"
            \/ inv[i].pc = "done" /\ inv'[i] = IdleInv

\* entries of savedFiles for part k
Entries(s, k) == {j \in DOMAIN s.savedFiles : s.savedFiles[j].name = FileName(s, k)}

\* the persistence of part k is complete
Persisted(s, k) == Has(s.log, Ev("uploadOk", k)) \/ Has(s.log, Ev("writeOk", k))

\* C1: every binary part whose persistence completed has exactly one
\* recorded location, the remote URL or a local path, never both and never
\* neither, and a successful invocation records as many artifacts as the
\* response has binary parts.
C1_ExactlyOneLocation ==
    \A i \in Slots :
        LET s == inv[i]
        IN /\ s.stage = "persist" =>
                /\ \A k \in PartIds :
                      /\ Persisted(s, k) <=> Entries(s, k) # {}
                      /\ Cardinality(Entries(s, k)) <= 1
                      /\ ~(Has(s.log, Ev("uploadOk", k)) /\ Has(s.log, Ev("writeOk", k)))
                      /\ Has(s.log, Ev("uploadOk", k)) =>
                            RemoteUrl(FileName(s, k)) \in Range(s.savedFiles)
                      /\ Has(s.log, Ev("writeOk", k)) =>
                            LocalPath(FileName(s, k)) \in Range(s.savedFiles)
                /\ Len(s.savedFiles) = Cardinality({k \in PartIds : Persisted(s, k)})
           /\ \A j \in DOMAIN s.savedFiles :
                 LET f == s.savedFiles[j]
                 IN /\ f.name \in (IF IsAzureUrl(f) THEN blobs ELSE localFiles)
                    /\ f.name \notin (IF IsAzureUrl(f) THEN localFiles ELSE blobs)
           /\ (s.tool \in ImageTools /\ s.stage = "reclaim" /\ Outcome(s).kind = "ok") =>
                 Len(s.savedFiles) = s.numBinary

C1_Witness ==
    LET s == inv[1]
    IN /\ s.pc = "done" /\ s.result.kind = "ok" /\ s.numBinary = 2
       /\ s.savedFiles = <<RemoteUrl(FileName(s, 1)), LocalPath(FileName(s, 2))>>

\* C2, in every state: each part has at most one upload attempt, a write of
\* a part comes only after its upload attempt returned absent (no handle, or
\* the upload threw), and a part whose upload succeeded is never written.
C2_State ==
    \A i \in Slots : \A k \in PartIds :
        LET log == inv[i].log
        IN /\ Count(log, Ev("upload", k)) <= 1
           /\ Count(log, Ev("upload", k)) + Count(log, Ev("noHandle", k))
                 = Count(log, Ev("decode", k))
           /\ \A j \in DOMAIN log : log[j] = Ev("write", k) =>
                 \E h \in 1..(j - 1) : log[h] \in {Ev("noHandle", k), Ev("uploadThrows", k)}
           /\ Precedes(log, Ev("upload", k), Ev("uploadThrows", k))
           /\ Has(log, Ev("uploadOk", k)) => ~Has(log, Ev("write", k))

\* C2, in every step: when the persistence of a part starts, the upload is
\* attempted iff the handle is present
C2_Step ==
    \A i \in Slots : \A k \in PartIds :
        (Has(inv'[i].log, Ev("decode", k)) /\ ~Has(inv[i].log, Ev("decode", k))) =>
            /\ containerClient # "null" <=> Has(inv'[i].log, Ev("upload", k))
            /\ containerClient = "null" <=> Has(inv'[i].log, Ev("noHandle", k))

\* C2: remote is tried first and at most once per part; a local write of a
\* part happens only after its upload attempt returned absent, and never
\* when the upload succeeded.
C2_RemoteFirstOnce == [](C2_State) /\ [][C2_Step]_vars

C2_Witness ==
    /\ inv[1].pc = "awaitWrite"
    /\ Has(inv[1].log, Ev("uploadOk", 1))
    /\ Has(inv[1].log, Ev("uploadThrows", 2))
    /\ Has(inv[1].log, Ev("write", 2))

\* the step in which slot i leaves the persist stage after an upload of
\* the invocation has thrown
EndsAfterUploadThrew(i) ==
    /\ inv[i].stage = "persist"
    /\ HasName(inv[i].log, "uploadThrows")
    /\ inv'[i].stage = "reclaim"

\* C3 as stated: once an upload has thrown, the invocation still succeeds
C3_Original ==
    [][\A i \in Slots : EndsAfterUploadThrew(i) => Outcome(inv'[i]).kind = "ok"]_vars

C3_State ==
    \A i \in Slots :
        LET s == inv[i]
        IN /\ Outcome(s).cause # "upload"
           /\ \A k \in PartIds :
                 Has(s.log, Ev("uploadThrows", k)) =>
                    /\ Has(s.log, Ev("write", k))
                    /\ Has(s.log, Ev("writeOk", k)) =>
                          /\ LocalPath(FileName(s, k)) \in Range(s.savedFiles)
                          /\ FileName(s, k) \in localFiles

C3_Step ==
    \A i \in Slots :
        EndsAfterUploadThrew(i) =>
            \/ Outcome(inv'[i]).kind = "ok"
            \/ Outcome(inv'[i]).cause = "write"

\* C3 (amended): when the handle is present and the upload of a part throws,
\* the local write of that part is attempted and the upload error is never
\* handed to the caller; if the write succeeds the local path is recorded,
\* and the invocation succeeds unless a local write itself throws.
C3_FallbackTransparency == [](C3_State) /\ [][C3_Step]_vars

C3_Witness ==
    LET s == inv[1]
    IN /\ s.stage = "persist"
       /\ containerClient # "null"
       /\ Has(s.log, Ev("uploadThrows", 1))
       /\ Has(s.log, Ev("writeOk", 1))
       /\ s.savedFiles[1] = LocalPath(FileName(s, 1))
       /\ s.k = 2

InitFailures == {Ev("createThrows", 0), Ev("constructThrows", 0)}

\* the step the handler takes once its initialisation of the backend is over
NextAfterInit(s) ==
    IF s.tool = "generate_image" THEN Ev("model", 0) ELSE Ev("loadPrimary", 0)

\* C4: a failure of the initialisation of the remote backend is never
\* propagated: startup goes on to serve requests, and an invocation goes on
\* with the step that follows a successful initialisation, and no
\* invocation ever fails with the initialisation error.
C4_InitFailureNotPropagated ==
    /\ (\E e \in InitFailures : Has(startupLog, e)) => phase = "serving"
    /\ \A i \in Slots :
          LET s == inv[i]
          IN /\ Outcome(s).cause # "init"
             /\ \A j \in DOMAIN s.log :
                   s.log[j] \in InitFailures \cup {Ev("createOk", 0)} =>
                      /\ s.tool \in ImageTools
                      /\ j < Len(s.log)
                      /\ s.log[j + 1] = NextAfterInit(s)

C4_Witness ==
    /\ inv[1].pc = "awaitModel"
    /\ Has(inv[1].log, Ev("createThrows", 0))

\* the step in which an initialisation of the remote backend fails
InitFailedStep ==
    \/ \E e \in InitFailures : Has(startupLog', e) /\ ~Has(startupLog, e)
    \/ \E i \in Slots : Logged(i, "createThrows") \/ Logged(i, "constructThrows")

\* C5 as stated: after a failed initialisation of the remote backend the
\* handle is absent
C5_Original == [][InitFailedStep => containerClient' = "null"]_vars

GCEvents == {Ev("gc", 1), Ev("yield", 1), Ev("gc", 2), Ev("yield", 2), Ev("gc", 3), Ev("yield", 3)}
ThreePasses == <<Ev("gc", 1), Ev("yield", 1), Ev("gc", 2), Ev("yield", 2), Ev("gc", 3), Ev("yield", 3)>>

IsPrefix(p, q) == Len(p) <= Len(q) /\ \A j \in DOMAIN p : p[j] = q[j]

\* the events of forceAggressiveGC so far
AggressiveTrace(s) ==
    LET start == CHOOSE j \in DOMAIN s.log : s.log[j] = Ev("aggressive", 0)
    IN SubSeq(s.log, start + 1, Len(s.log))

\* C6: with the capability, each call of forceAggressiveGC makes exactly 3
\* passes, each followed by a yield before the next pass, whatever the
\* outcome of the invocation.
C6_ThreePasses ==
    \A i \in Slots :
        LET s == inv[i]
        IN (gcAvailable /\ HasName(s.log, "aggressive")) =>
              /\ IsPrefix(AggressiveTrace(s), ThreePasses)
              /\ s.pc = "done" => AggressiveTrace(s) = ThreePasses
              /\ s.pc # "done" =>
                    /\ s.pc = "awaitYield"
                    /\ AggressiveTrace(s) # <<>>
                    /\ AggressiveTrace(s)[Len(AggressiveTrace(s))][1] = "gc"

C6_Witness ==
    /\ gcAvailable
    /\ inv[1].pc = "done"
    /\ inv[1].result.kind = "error"
    /\ HasName(inv[1].log, "aggressive")
    /\ AggressiveTrace(inv[1]) = ThreePasses

\* C7 as stated: every finished generate_image / edit_image invocation has
\* invoked forceAggressiveGC
C7_Original ==
    \A i \in Slots :
        (inv[i].tool \in ImageTools /\ inv[i].pc = "done") =>
            HasName(inv[i].log, "aggressive")

\* C7 (amended): every generate_image / edit_image invocation that passed
\* the configuration check invokes forceAggressiveGC exactly once, as its
\* last step on the success path and in the catch block, before the result
\* or the error is handed back.
C7_AggressiveAtEnd ==
    \A i \in Slots :
        LET s == inv[i]
        IN /\ s.pc # "done" => s.result = NoResult
           /\ (s.tool \in ImageTools /\ s.pc = "done" /\ PassedConfigCheck(s)) =>
                 /\ s.stage = "reclaim"
                 /\ Len(s.log) >= 2
                 /\ s.log[1] = (IF s.result.kind = "ok" THEN Ev("drop", 0) ELSE Ev("catch", 0))
                 /\ s.log[2] = Ev("aggressive", 0)
                 /\ CountName(s.log, "aggressive") = 1
                 /\ \A j \in 3..Len(s.log) : s.log[j] \in GCEvents
           /\ (s.tool \in ImageTools /\ s.stage = "reclaim") => s.after.kind # "none" \/ s.pc = "done"

C7_Witness ==
    /\ inv[1].pc = "done"
    /\ inv[1].result = McpError("InternalError", "model")
    /\ inv[1].log[2] = Ev("aggressive", 0)

C9_Threshold ==
    \A i \in Slots :
        LET s == inv[i]
            passes == Count(s.log, Ev("gc", 0))
        IN /\ passes <= CountName(s.log, "check")
           /\ s.memUsage # NoSample =>
                 /\ Has(s.log, Ev("check", 0))
                 /\ passes = IF gcAvailable /\ s.memUsage.heapUsed * 10 > s.memUsage.heapTotal * 7
                             THEN 1 ELSE 0
                 /\ (s.memUsage = MemSample(75, 100) /\ gcAvailable) => passes = 1
                 /\ s.memUsage = MemSample(70, 100) => passes = 0

C9_Witness ==
    /\ gcAvailable
    /\ inv[1].memUsage = MemSample(75, 100)
    /\ SubSeq(inv[1].log, 1, 2) = <<Ev("check", 0), Ev("gc", 0)>>

\* C10 as stated: every generate_image / edit_image invocation runs the
\* threshold check once
C10_Original ==
    \A i \in Slots :
        (inv[i].tool \in ImageTools /\ inv[i].stage = "call") =>
            CountName(inv[i].log, "check") = 1

C10_State ==
    \A i \in Slots :
        LET s == inv[i]
        IN (s.tool \in ImageTools /\ PassedConfigCheck(s)) =>
              IF s.stage = "call"
              THEN /\ CountName(s.log, "check") = 1
                   /\ s.log[1] = Ev("check", 0)
              ELSE ~HasName(s.log, "check")

\* C10 (amended): every generate_image / edit_image invocation that passed
\* the configuration check runs the threshold check exactly once, before
\* the lazy initialisation, before any image load and before the model call.
C10_CheckFirstOnce == [](C10_State) /\ [][StageOrder]_vars

C10_Witness ==
    /\ inv[1].pc = "awaitModel"
    /\ inv[1].log[1] = Ev("check", 0)
    /\ HasName(inv[1].log, "createCall")
    /\ HasName(inv[1].log, "loadRef")

\* C11: from Bootstrapping the wrapper goes to Direct when global.gc is
\* callable, spawning nothing and running the main program in its own
\* process, and to Supervising otherwise, spawning exactly one child and
\* never running the main program itself; the main program always runs in a
\* process that has the capability.
C11_LauncherStates ==
    /\ launcher.state \in {"Bootstrapping", "Direct", "Supervising"}
    /\ launcher.state = "Bootstrapping" =>
          launcher.spawns = 0 /\ launcher.mainIn = "none" /\ phase = "off"
    /\ launcher.state = "Direct" =>
          launcher.gc /\ launcher.spawns = 0 /\ launcher.child = "none"
          /\ launcher.mainIn = "parent"
    /\ launcher.state = "Supervising" =>
          ~launcher.gc /\ launcher.spawns = 1 /\ launcher.child # "none"
          /\ launcher.mainIn = "child"
    /\ launcher.mainIn # "none" => gcAvailable /\ phase # "off"

C11_Witness ==
    /\ launcher.state = "Supervising"
    /\ launcher.exited
    /\ launcher.spawns = 1
    /\ gcAvailable

\* the argument vector C12 states
ClaimedChildArgs(l) ==
    <<ExposeGC,
      MaxOldSpaceFlag(IF l.heapEnv \in {"undefined", ""} THEN "512" ELSE l.heapEnv),
      OptimizeForSize, MainScript>> \o l.argv

\* C12 as stated: the child is spawned with [--expose-gc,
\* --max-old-space-size=<MAX_OLD_SPACE_SIZE or 512>, --optimize-for-size,
\* main script, the original arguments in order], with inherited standard
\* I/O and the environment of the parent.
C12_Original ==
    launcher.state = "Supervising" =>
        /\ launcher.childArgs = ClaimedChildArgs(launcher)
        /\ launcher.childStdio = "inherit"
        /\ launcher.childEnv = "process.env"

\* C13: while Supervising every SIGINT or SIGTERM the wrapper receives is
\* passed to the child as the same signal; in Direct no handler is set.
C13_SignalsForwarded ==
    /\ launcher.state = "Supervising" =>
          launcher.forwarding /\ launcher.killed = launcher.received
    /\ launcher.state = "Direct" =>
          ~launcher.forwarding /\ launcher.killed = <<>>

C13_Witness ==
    /\ launcher.state = "Supervising"
    /\ launcher.received = <<"SIGTERM", "SIGINT">>
    /\ launcher.killed = <<"SIGTERM", "SIGINT">>

\* C14: when the supervised child has exited the wrapper exits with the
\* exit code of the child, and with 0 when the child has none.
C14_ExitCode ==
    /\ (launcher.state = "Supervising" /\ launcher.exited) =>
          /\ launcher.child = "exited"
          /\ launcher.exitSignal = "none"
          /\ launcher.exitCode = (IF launcher.childCode = NullCode
                                  THEN "0" ELSE launcher.childCode)
    /\ (launcher.state = "Supervising" /\ ~launcher.exited) => launcher.exitCode = "none"

C14_Witness ==
    /\ launcher.state = "Supervising"
    /\ launcher.exited
    /\ launcher.childCode = "1"
    /\ launcher.exitCode = "1"

\* the parts editImage sends when the loop over referenceImages is over
ExpectedParts(s) ==
    <<PrimaryPart>>
        \o SelectSeq([j \in 1..s.refIdx |-> RefPart(j)],
                     LAMBDA part : Has(s.log, Ev("refOk", part[2])))
        \o <<PromptPart>>

\* C15: in edit_image a reference image that fails to load is left out and
\* raises no error; the model gets the primary image, then the references
\* that loaded, in their order, then the prompt.
C15_BestEffortReferences ==
    \A i \in Slots :
        LET s == inv[i]
        IN /\ Outcome(s).cause # "reference"
           /\ (s.tool = "edit_image" /\ s.stage = "call") =>
                 /\ \A j \in 1..MaxRefs :
                       /\ Count(s.log, Ev("loadRef", j)) <= 1
                       /\ Count(s.log, Ev("refOk", j)) + Count(s.log, Ev("refFailed", j))
                             = (IF j < s.refIdx \/ (j = s.refIdx /\ s.pc # "awaitRef")
                                THEN 1 ELSE 0)
                       /\ Has(s.log, Ev("loadRef", j)) <=> j <= s.refIdx
                 /\ s.pc = "awaitModel" =>
                       /\ s.refsLeft = 0
                       /\ s.modelReq = ExpectedParts(s)

C15_Witness ==
    /\ inv[1].pc = "awaitModel"
    /\ Has(inv[1].log, Ev("refFailed", 1))
    /\ Has(inv[1].log, Ev("refOk", 2))
    /\ inv[1].modelReq = <<PrimaryPart, RefPart(2), PromptPart>>

C16_State ==
    \A i \in Slots :
        LET s == inv[i]
        IN /\ Outcome(s).cause = "primary" =>
                 /\ s.tool = "edit_image"
                 /\ Outcome(s) = McpError("InternalError", "primary")
                 /\ s.stage = "reclaim"
                 /\ s.modelReq = <<>>
                 /\ \A j \in DOMAIN s.log : s.log[j][1] \in {"catch", "aggressive", "gc", "yield"}
           /\ (s.tool = "edit_image" /\ s.stage = "call") =>
                 \A j \in DOMAIN s.log :
                    s.log[j][1] \in {"loadRef", "model"} =>
                       \E h \in 1..(j - 1) : s.log[h] = Ev("primaryLoaded", 0)

C16_Step ==
    \A i \in Slots :
        (inv[i].pc = "awaitPrimary" /\ ~Logged(i, "primaryLoaded") /\ inv'[i] # inv[i]) =>
            /\ Outcome(inv'[i]) = McpError("InternalError", "primary")
            /\ ~HasName(inv[i].log, "loadRef")
            /\ ~HasName(inv[i].log, "model")

\* C16: in edit_image a failure to load the primary image ends the
\* invocation with an internal error; no reference image is loaded and the
\* model is not called.
C16_PrimaryFailureFatal == [](C16_State) /\ [][C16_Step]_vars

C16_Witness ==
    /\ inv[1].tool = "edit_image"
    /\ inv[1].pc = "done"
    /\ inv[1].result = McpError("InternalError", "primary")

\* the step in which slot i is rejected as not configured
Rejected(i) == inv[i].pc = "idle" /\ inv'[i].result.cause = "notConfigured"

\* C17: generate_image or edit_image without a configured API key fails
\* with the invalid-request error, which reaches the caller as it is; no
\* model call, no initialisation of the backend, no write and no pass has
\* been made, and the call is made once.
C17_NotConfigured ==
    /\ [](\A i \in Slots :
            LET s == inv[i]
            IN s.result.cause = "notConfigured" =>
                  /\ s.tool \in ImageTools
                  /\ s.pc = "done"
                  /\ s.result = McpError("InvalidRequest", "notConfigured")
                  /\ s.log = <<>>
                  /\ s.modelReq = <<>> /\ ~s.hasResp /\ s.savedFiles = <<>>)
    /\ [][\A i \in Slots :
            /\ Rejected(i) =>
                  /\ ~(config.set /\ genAI)
                  /\ UNCHANGED <<cfgVars, azVars, storeVars>>
            /\ (inv[i].pc = "idle" /\ inv'[i].tool \in ImageTools /\ ~(config.set /\ genAI)) =>
                  Rejected(i)]_vars

C17_Witness ==
    /\ inv[1].tool = "edit_image"
    /\ inv[1].pc = "done"
    /\ inv[1].result = McpError("InvalidRequest", "notConfigured")
    /\ env.conn = "envGood"

\* C18: when the model call fails the invocation fails with an internal
\* error, and forceAggressiveGC has completed before the error is handed
\* back.
C18_ModelFailure ==
    /\ [](\A i \in Slots :
            LET s == inv[i]
            IN Outcome(s).cause = "model" =>
                  /\ s.tool \in ImageTools
                  /\ Outcome(s) = McpError("InternalError", "model")
                  /\ s.stage = "reclaim"
                  /\ Len(s.log) >= 2
                  /\ SubSeq(s.log, 1, 2) = <<Ev("catch", 0), Ev("aggressive", 0)>>
                  /\ s.pc # "done" => s.result = NoResult
                  /\ s.pc = "done" =>
                        SubSeq(s.log, 3, Len(s.log))
                           = (IF gcAvailable THEN ThreePasses ELSE <<>>))
    /\ [][\A i \in Slots :
            (inv[i].pc = "awaitModel" /\ inv'[i].stage # "persist" /\ inv'[i] # inv[i]) =>
                Outcome(inv'[i]).cause = "model"]_vars

C18_Witness ==
    /\ gcAvailable
    /\ inv[1].tool = "generate_image"
    /\ inv[1].pc = "done"
    /\ inv[1].result.cause = "model"
    /\ Len(inv[1].log) = 8

\* C19 as stated: with a healthy remote backend a generate_image invocation
\* whose response has one binary part returns the URL of the uploaded blob
\* and creates or writes nothing in the local images directory.
C19_Original ==
    /\ [](\A i \in Slots :
            LET s == inv[i]
            IN (s.tool = "generate_image" /\ s.pc = "done" /\ s.result.kind = "ok"
                  /\ s.numBinary = 1 /\ IsAzureUrl(s.savedFiles[1])) =>
                  s.result.url = s.savedFiles[1].name)
    /\ [][\A i \in Slots :
            (inv[i].tool = "generate_image" /\ inv[i].numBinary = 1
               /\ containerClient = "client" /\ ~HasName(inv'[i].log, "uploadThrows")) =>
                (dirExists' = dirExists /\ localFiles' = localFiles)]_vars

\* the step in which slot i leaves the persist stage without a handle
EndsWithoutBackend(i) ==
    /\ inv[i].stage = "persist"
    /\ inv'[i].stage = "reclaim"
    /\ containerClient = "null"
    /\ inv[i].numBinary >= 1

\* C20 as stated: without a remote backend an invocation whose response has
\* a binary part succeeds
C20_Original ==
    [][\A i \in Slots : EndsWithoutBackend(i) => Outcome(inv'[i]).kind = "ok"]_vars

\* C20 (amended): without a remote backend an invocation whose response has
\* a binary part succeeds unless mkdir or writeFile throws; when it
\* succeeds every binary part is a local file of the images directory and
\* the URL of the result is null.
C20_LocalOnly ==
    /\ [](\A i \in Slots :
            LET s == inv[i]
            IN (s.tool \in ImageTools /\ containerClient = "null") =>
                  /\ ~HasName(s.log, "upload")
                  /\ (s.stage = "reclaim" /\ Outcome(s).kind = "ok") =>
                        /\ Outcome(s).url = <<>>
                        /\ Len(s.savedFiles) = s.numBinary
                        /\ \A j \in DOMAIN s.savedFiles :
                              /\ ~IsAzureUrl(s.savedFiles[j])
                              /\ s.savedFiles[j].name \in localFiles
                              /\ dirExists)
    /\ [][\A i \in Slots :
            EndsWithoutBackend(i) =>
                \/ Outcome(inv'[i]).kind = "ok"
                \/ Outcome(inv'[i]).cause \in {"mkdir", "write"}]_vars

C20_Witness ==
    /\ containerClient = "null"
    /\ inv[1].pc = "done"
    /\ inv[1].result = OkResult(<<>>)
    /\ inv[1].numBinary = 2
    /\ FileName(inv[1], 2) \in localFiles

\* the parts whose decoded buffer is referenced
LiveBuffers(s) ==
    {k \in PartIds : Has(s.log, Ev("decode", k)) /\ ~Has(s.log, Ev("release", k))}

\* C21: while the parts of a response are processed at most one decoded
\* buffer is live; once the persistence of a part is complete its base64
\* field is the empty value and its buffer is released, and both happen
\* before the next part is decoded.
C21_SingleLiveBuffer ==
    \A i \in Slots :
        LET s == inv[i]
        IN /\ s.stage # "persist" => s.buf = 0
           /\ s.stage = "persist" =>
                 /\ Cardinality(LiveBuffers(s)) <= 1
                 /\ LiveBuffers(s) = (IF s.buf = 0 THEN {} ELSE {s.buf})
                 /\ s.buf # 0 => s.pc \in {"awaitUpload", "awaitWrite"} /\ s.buf = s.k
                 /\ \A k \in DOMAIN s.resp :
                       /\ s.resp[k] = "empty" <=> Has(s.log, Ev("scrub", k))
                       /\ Persisted(s, k) =>
                             /\ s.resp[k] = "empty"
                             /\ Has(s.log, Ev("release", k))
                             /\ k \notin LiveBuffers(s)
                 /\ \A j \in DOMAIN s.log :
                       s.log[j][1] = "decode" =>
                          \A h \in 1..(j - 1) :
                             s.log[h][1] = "decode" =>
                                /\ \E g \in (h + 1)..(j - 1) : s.log[g] = Ev("release", s.log[h][2])
                                /\ \E g \in (h + 1)..(j - 1) : s.log[g] = Ev("scrub", s.log[h][2])

C21_Witness ==
    LET s == inv[1]
    IN /\ s.stage = "persist"
       /\ s.resp = <<"empty", "bin">>
       /\ Has(s.log, Ev("writeOk", 1))
       /\ s.buf = 2
       /\ s.pc = "awaitUpload"

\* C22: on the success path the reference to the response is dropped once
\* every part is processed, before forceAggressiveGC starts and before the
\* result is built; the result holds the URL or null and no part of the
\* response.
C22_ResponseDropped ==
    \A i \in Slots :
        LET s == inv[i]
        IN /\ s.hasResp => s.stage = "persist" /\ s.pc # "done"
           /\ ~s.hasResp => s.resp = <<>>
           /\ (s.tool \in ImageTools /\ s.stage = "reclaim" /\ Outcome(s).kind = "ok") =>
                 /\ ~s.hasResp
                 /\ Len(s.savedFiles) = s.numBinary
                 /\ Len(s.log) >= 2
                 /\ s.log[1] = Ev("drop", 0)
                 /\ s.log[2] = Ev("aggressive", 0)
                 /\ CountName(s.log, "drop") = 1
                 /\ Outcome(s) = OkResult(AzureUrl(s.savedFiles))
                 /\ Outcome(s).url \in {<<>>} \cup {FileName(s, k) : k \in PartIds}
                 /\ Outcome(s).url # <<>> => Outcome(s).url \in blobs

C22_Witness ==
    LET s == inv[1]
    IN /\ s.pc = "done"
       /\ s.result = OkResult(FileName(s, 2))
       /\ s.numBinary = 1
       /\ ~s.hasResp
       /\ Has(s.log, Ev("yield", 3))

\* the steps of the processing of one part, in the order of the loop body
PartStepRank(name) ==
    CASE name = "decode" -> 1
      [] name \in {"upload", "noHandle"} -> 2
      [] name \in {"uploadOk", "uploadThrows"} -> 3
      [] name = "write" -> 4
      [] name = "writeOk" -> 5
      [] name = "release" -> 6
      [] name = "scrub" -> 7
      [] OTHER -> 0

IsPartStep(e) == PartStepRank(e[1]) > 0

\* part k is processed by the end of this step: it is text, it was scrubbed,
\* or it is the part in flight and this step stores it
ProcessedAtStep(i, k) ==
    \/ inv[i].resp[k] \in {"text", "empty"}
    \/ k = inv[i].k /\ FileName(inv[i], k) \in (blobs' \cup localFiles')

\* C23 as stated: forceAggressiveGC starts only after every part of the
\* response has been processed
C23_Original ==
    [][\A i \in Slots :
          (inv[i].stage = "persist" /\ Logged(i, "aggressive")) =>
              \A k \in DOMAIN inv[i].resp : ProcessedAtStep(i, k)]_vars

\* the steps of the parts in the log of the persist stage are in order
PartStepsInOrder(log) ==
    /\ \A j \in DOMAIN log : \A h \in DOMAIN log :
          (j < h /\ IsPartStep(log[j]) /\ IsPartStep(log[h])) =>
             /\ log[j][2] <= log[h][2]
             /\ log[j][2] = log[h][2] => PartStepRank(log[j][1]) < PartStepRank(log[h][1])
             /\ log[j][2] < log[h][2] =>
                   \E g \in j..(h - 1) : log[g] = Ev("scrub", log[j][2])
    /\ \A j \in DOMAIN log :
          log[j][1] = "scrub" =>
             /\ \E h \in 1..(j - 1) : log[h] = Ev("decode", log[j][2])
             /\ \E h \in 1..(j - 1) : log[h] \in {Ev("uploadOk", log[j][2]), Ev("writeOk", log[j][2])}

\* C23 (amended): for each binary part decode, persist, scrub happen in
\* that order and the steps of a later part start only after the scrub of
\* the part before it; on the success path forceAggressiveGC starts only
\* after every part has been processed, on the failure path only after the
\* processing has stopped, and no part is processed once it has started; in
\* edit_image every reference image has been loaded or skipped before the
\* model call is issued.
C23_ProcessingOrder ==
    \A i \in Slots :
        LET s == inv[i]
        IN /\ s.stage = "persist" => PartStepsInOrder(s.log)
           /\ s.stage # "persist" => \A j \in DOMAIN s.log : ~IsPartStep(s.log[j])
           /\ (s.tool \in ImageTools /\ HasName(s.log, "aggressive")) =>
                 /\ s.stage = "reclaim"
                 /\ s.log[1] \in {Ev("drop", 0), Ev("catch", 0)}
                 /\ s.log[1] = Ev("drop", 0) <=> Outcome(s).kind = "ok"
                 /\ s.log[1] = Ev("drop", 0) => Len(s.savedFiles) = s.numBinary
           /\ (s.tool = "edit_image" /\ Has(s.log, Ev("model", 0))) =>
                 /\ s.refsLeft = 0
                 /\ s.log[Len(s.log)] = Ev("model", 0)
                 /\ \A j \in 1..s.refIdx :
                       /\ Has(s.log, Ev("loadRef", j))
                       /\ Has(s.log, Ev("refOk", j)) \/ Has(s.log, Ev("refFailed", j))

C23_Witness ==
    LET s == inv[1]
    IN /\ s.tool = "edit_image"
       /\ s.stage = "persist"
       /\ s.log = <<Ev("modelReturned", 2), Ev("mkdir", 0), Ev("mkdirOk", 0),
                    Ev("decode", 1), Ev("upload", 1), Ev("uploadThrows", 1),
                    Ev("write", 1), Ev("writeOk", 1), Ev("release", 1), Ev("scrub", 1),
                    Ev("decode", 2), Ev("upload", 2)>>

\* initialisations of the remote backend attempted by loadConfig
LoadInits ==
    Count(startupLog, Ev("construct", 0)) + Count(startupLog, Ev("constructThrows", 0))

\* C24 as stated: in a process lifetime the remote backend is initialised
\* at most once at config load and at most once lazily, whatever the
\* invocations: after a failed attempt no invocation attempts it again.
C24_Original ==
    /\ LoadInits <= 1
    /\ lazyInits <= 1

LocalFailures == {"mkdir", "write"}

\* C25: a failure of mkdir or of writeFile while the output is persisted
\* ends the invocation: the processing goes on only with the directory
\* made and the file written, and the failure is handed back as an internal
\* error once forceAggressiveGC has completed.
C25_LocalFailureFatal ==
    \A i \in Slots :
        LET s == inv[i]
        IN /\ (s.stage = "persist" /\ s.pc # "awaitMkdir") => dirExists
           /\ s.stage = "persist" =>
                 \A k \in PartIds :
                    (Has(s.log, Ev("write", k)) /\ ~(s.pc = "awaitWrite" /\ s.k = k)) =>
                        /\ Has(s.log, Ev("writeOk", k))
                        /\ FileName(s, k) \in localFiles
           /\ Outcome(s).cause \in LocalFailures =>
                 /\ s.tool \in ImageTools
                 /\ Outcome(s) = McpError("InternalError", Outcome(s).cause)
                 /\ s.stage = "reclaim"
                 /\ Len(s.log) >= 2
                 /\ SubSeq(s.log, 1, 2) = <<Ev("catch", 0), Ev("aggressive", 0)>>
                 /\ s.savedFiles = <<>> /\ ~s.hasResp
                 /\ s.pc # "done" => s.result = NoResult /\ s.pc = "awaitYield"
                 /\ s.pc = "done" =>
                       SubSeq(s.log, 3, Len(s.log))
                          = (IF gcAvailable THEN ThreePasses ELSE <<>>)

C25_Witness ==
    /\ gcAvailable
    /\ inv[1].pc = "done"
    /\ inv[1].result = McpError("InternalError", "write")
    /\ Has(inv[1].log, Ev("yield", 3))
    /\ Older \in localFiles

ErrorCodes == {"MethodNotFound", "InvalidRequest", "InvalidParams", "InternalError"}

\* the causes the tools report themselves as an McpError
TypedCauses == {"notConfigured", "zod", "unknownTool"}

\* C26: a failing invocation reaches the caller as a typed error: an
\* unknown tool name as method-not-found, an McpError thrown by a tool as it
\* is, any other exception as an internal error with the message of its
\* cause; once the error is handed back the server is serving and the slot
\* takes the next invocation.
C26_TypedErrors ==
    /\ [](\A i \in Slots :
            LET s == inv[i]
            IN /\ s.pc # "idle" => phase = "serving"
               /\ (s.pc = "done" /\ s.result.kind # "ok") =>
                     /\ s.result.kind = "error"
                     /\ s.result.code \in ErrorCodes
                     /\ s.result.cause # "none"
                     /\ s.tool = "unknown_tool" <=> s.result.code = "MethodNotFound"
                     /\ s.result.cause = "unknownTool" <=> s.result.code = "MethodNotFound"
                     /\ s.result.cause = "notConfigured" <=> s.result.code = "InvalidRequest"
                     /\ s.result.cause = "zod" <=> s.result.code = "InvalidParams"
                     /\ s.result.cause \notin TypedCauses <=> s.result.code = "InternalError")
    /\ [][\A i \in Slots :
            (inv[i].pc = "done" /\ inv'[i] # inv[i]) =>
                /\ inv'[i] = IdleInv
                /\ phase' = "serving"
                /\ UNCHANGED <<cfgVars, azVars, dirExists>>]_vars

C26_Witness ==
    /\ inv[1].tool = "configure_gemini_token"
    /\ inv[1].pc = "done"
    /\ inv[1].result = McpError("InternalError", "save")
    /\ phase = "serving"

\* slot i starts configure_gemini_token in this step
ConfigureStarts(i) == inv[i].pc = "idle" /\ inv'[i].tool = "configure_gemini_token"

\* the writeFile of saveConfig called by slot i completes in this step
SaveCompletes(i) == inv[i].pc = "awaitSave" /\ inv'[i] # inv[i]

C27_State ==
    /\ phase = "serving" => (configSource # "not_configured" <=> config.set /\ genAI)
    /\ \A i \in Slots :
          LET s == inv[i]
          IN /\ s.result.cause = "zod" =>
                   /\ s.tool = "configure_gemini_token"
                   /\ s.result = McpError("InvalidParams", "zod")
                   /\ s.log = <<>>
             /\ (s.tool = "configure_gemini_token" /\ s.pc # "done") =>
                   /\ config = Config("none", DefaultContainer)
                   /\ genAI
                   /\ configSource = "config_file"
             /\ (s.tool = "configure_gemini_token" /\ s.pc = "done" /\ s.result.kind = "ok") =>
                   /\ config.set /\ genAI /\ configSource = "config_file"
                   /\ cfgFile = ConfigFile(config.conn)
             /\ s.result.cause = "notConfigured" => configSource = "not_configured"

C27_Step ==
    /\ (config.set /\ genAI) => (config'.set /\ genAI')
    /\ \A i \in Slots :
          /\ (ConfigureStarts(i) /\ inv'[i].pc = "done") =>
                /\ inv'[i].result = McpError("InvalidParams", "zod")
                /\ UNCHANGED <<cfgVars, azVars>>
          /\ (ConfigureStarts(i) /\ inv'[i].pc # "done") =>
                /\ inv'[i].pc = "awaitSave"
                /\ config'.set /\ genAI' /\ configSource' = "config_file"
                /\ cfgFile' = cfgFile
          /\ SaveCompletes(i) =>
                /\ UNCHANGED <<config, genAI, configSource>>
                /\ \/ cfgFile' = ConfigFile(config.conn) /\ Outcome(inv'[i]).kind # "error"
                   \/ cfgFile' = cfgFile /\ inv'[i].result = McpError("InternalError", "save")

ConfigLoaded == phase = "boot" /\ phase' # "boot"

\* C28: at startup an API key in the environment is used, with source
\* 'environment', whatever the config file holds; without one a valid
\* config file is used, with source 'config_file'; without either the
\* server is 'not_configured'.
C28_Precedence ==
    /\ [](/\ phase = "boot" => configSource = "not_configured" /\ ~genAI /\ config = NoConfig
          /\ configSource = "environment" => env.apiKey)
    /\ [][ConfigLoaded =>
            /\ env.apiKey =>
                  /\ configSource' = "environment"
                  /\ config' = Config(env.conn, EnvContainerName(env))
                  /\ genAI'
            /\ (~env.apiKey /\ cfgFile.valid) =>
                  /\ configSource' = "config_file"
                  /\ config' = Config(cfgFile.conn, DefaultContainer)
                  /\ genAI'
            /\ (~env.apiKey /\ ~cfgFile.valid) =>
                  /\ configSource' = "not_configured"
                  /\ config' = NoConfig
                  /\ ~genAI'
            /\ cfgFile' = cfgFile]_vars

C28_Witness ==
    /\ phase = "loadInit"
    /\ env.apiKey
    /\ env.conn = "envGood"
    /\ cfgFile = ConfigFile("fileGood")
    /\ configSource = "environment"
    /\ config.conn = "envGood"

\* the invocations suspended at the createIfNotExists call of the lazy
\* initialisation
InitPending == {i \in Slots : inv[i].pc = "awaitInit"}

\* the step in which slot i starts an image tool, with the configuration
\* set, while the lazy initialisation of the other slot is pending
StartsDuringInit(i) ==
    /\ inv[i].pc = "idle"
    /\ inv'[i].tool \in ImageTools
    /\ PassedConfigCheck(inv'[i])
    /\ InitPending # {}

SystemDirs == {"usr", "opt", "var"}

\* the directory C30 states for host h
ClaimedImagesDir(h) ==
    IF h.platform = "win32"
    THEN h.home \o <<"Documents", "nano-banana-images">>
    ELSE IF Len(h.cwd) >= 1 /\ h.cwd[1] \in SystemDirs
    THEN h.home \o <<"nano-banana-images">>
    ELSE h.cwd \o <<"generated_imgs">>

\* C30 as stated: the images directory is <home>/Documents/nano-banana-images
\* on Windows; elsewhere <cwd>/generated_imgs, unless the working
\* directory is /usr, /opt or /var or lies under one of them, and then
\* <home>/nano-banana-images.
C30_Original ==
    host.imagesDir # <<>> => host.imagesDir = ClaimedImagesDir(host)

\* C31: the images directory is made before every local write: in an
\* invocation writeFile is called only after mkdir has succeeded in the
\* same invocation, and a written file lies in an existing directory.
C31_MkdirBeforeWrite ==
    \A i \in Slots :
        LET s == inv[i]
        IN /\ \A j \in DOMAIN s.log :
                 s.log[j][1] \in {"write", "writeOk"} =>
                    /\ s.stage = "persist"
                    /\ \E h \in 1..(j - 1) : s.log[h] = Ev("mkdirOk", 0)
                    /\ dirExists
           /\ s.pc = "awaitWrite" => Has(s.log, Ev("mkdirOk", 0)) /\ dirExists
           /\ Count(s.log, Ev("mkdir", 0)) <= 1
           /\ Precedes(s.log, Ev("mkdir", 0), Ev("mkdirOk", 0))
           /\ localFiles # {} => dirExists

C31_Witness ==
    /\ inv[1].pc = "awaitWrite"
    /\ inv[1].log = <<Ev("modelReturned", 1), Ev("mkdir", 0), Ev("mkdirOk", 0),
                      Ev("decode", 1), Ev("noHandle", 1), Ev("write", 1)>>
    /\ localFiles = {}

\* C32: an image reference, primary or not, is fetched exactly when it
\* starts with 'https://'; every other reference, a URL of another scheme
\* included, is read from the filesystem as a path.
C32_PrefixTest ==
    \A i \in Slots :
        LET s == inv[i]
        IN /\ s.pc \in {"awaitPrimary", "awaitRef"} <=> s.io # "none"
           /\ s.io # "none" =>
                 /\ s.tool = "edit_image"
                 /\ s.ioArg \in ImageRefs
                 /\ s.io = "fetch" <=> s.ioArg = "https://img"
                 /\ s.io = "readFile" <=> s.ioArg \in {"http://img", "/img"}
                 /\ s.pc = "awaitPrimary" => s.ioArg = s.primary

C32_Witness ==
    /\ inv[1].pc = "awaitRef"
    /\ inv[1].ioArg = "http://img"
    /\ inv[1].io = "readFile"
    /\ Has(inv[1].log, Ev("primaryLoaded", 0))

\* slot i enters generateImage / editImage in this step and gets past
\* ensureConfigured
StartsImageTool(i) ==
    /\ inv[i].pc = "idle"
    /\ inv'[i].tool \in ImageTools
    /\ PassedConfigCheck(inv'[i])

\* slot i attempts the initialisation of the backend in this step
AttemptsInit(i) == Logged(i, "construct") \/ Logged(i, "constructThrows")

C34_ResultUrl ==
    \A i \in Slots :
        LET s == inv[i]
            files == s.savedFiles
        IN (s.tool \in ImageTools /\ s.stage = "reclaim" /\ s.log[1] = Ev("drop", 0)) =>
              /\ Outcome(s).kind = "ok"
              /\ Outcome(s).url # <<>> <=> (Len(files) > 0 /\ files[1].loc = "https")
              /\ Outcome(s).url # <<>> =>
                    /\ Outcome(s).url = files[1].name
                    /\ Has(inv[i].savedFiles, RemoteUrl(Outcome(s).url))
              /\ (Len(files) > 0 /\ files[1].loc = "path") => Outcome(s).url = <<>>
              /\ s.numBinary = 0 => files = <<>> /\ Outcome(s) = OkResult(<<>>)

C34_Witness ==
    LET s == inv[1]
    IN /\ s.pc = "done"
       /\ s.result = OkResult(<<>>)
       /\ s.savedFiles = <<LocalPath(FileName(s, 1)), RemoteUrl(FileName(s, 2))>>
       /\ FileName(s, 2) \in blobs

UploadSteps == {"upload", "uploadOk", "uploadThrows"}

\* C35: the handle, once present, stays present: it is present exactly when
\* an initialisation has assigned it at some time in the life of the
\* process, whatever was invoked since; an upload that failed and
\* configure_gemini_token leave it as it is, and the parts after a failed
\* upload are attempted on it again.
C35_HandleMonotonic ==
    /\ containerClient = "client" <=>
          \/ Has(startupLog, Ev("construct", 0))
          \/ lazyInits >= 1 /\ env.conn = "envGood"
    /\ containerClient = "client" <=> blobServiceClient
    /\ \A i \in Slots :
          LET s == inv[i]
          IN /\ HasName(s.log, "upload") => containerClient = "client"
             /\ \A j \in DOMAIN s.log : \A h \in DOMAIN s.log :
                   (j < h /\ s.log[j][1] \in UploadSteps) => s.log[h][1] # "noHandle"
             /\ \A k \in PartIds :
                   (Has(s.log, Ev("uploadThrows", k)) /\ Has(s.log, Ev("decode", k + 1))) =>
                       Has(s.log, Ev("upload", k + 1))

C35_Witness ==
    /\ containerClient = "client"
    /\ config = Config("none", DefaultContainer)
    /\ inv[1].pc = "awaitUpload"
    /\ Has(inv[1].log, Ev("uploadThrows", 1))
    /\ Has(inv[1].log, Ev("upload", 2))

\* the invocations whose upload call is pending
UploadPending == {i \in Slots : inv[i].pc = "awaitUpload"}

\* C36 as stated: with two invocations in flight no upload is issued on the
\* handle while the createIfNotExists call of its lazy initialisation is
\* pending, and an invocation sees the handle only after that call returned.
C36_Original ==
    InitPending # {} =>
        /\ UploadPending = {}
        /\ \A i \in Slots : ~HasName(inv[i].log, "upload")

\* the step in which the writeFile awaited by slot i throws
WriteFails(i) ==
    /\ inv[i].pc = "awaitWrite"
    /\ inv'[i].stage = "reclaim"
    /\ Outcome(inv'[i]).kind = "error"

\* every element of a store is still stored after the step (the names of a
\* finished invocation are kept as Older)
Kept(store, after) == \A n \in store : n \in after \/ Older \in after

\* C37: when the local write of part k fails, the blobs and the files
\* stored for the earlier parts of the invocation stay where they are; the
\* invocation ends with the error and hands back none of them.
C37_NoRollback ==
    [][/\ Kept(blobs, blobs')
       /\ Kept(localFiles, localFiles')
       /\ \A i \in Slots :
             WriteFails(i) =>
                /\ blobs' = blobs
                /\ localFiles' = localFiles
                /\ \A j \in DOMAIN inv[i].savedFiles :
                      LET f == inv[i].savedFiles[j]
                      IN f.name \in (IF IsAzureUrl(f) THEN blobs' ELSE localFiles')
                /\ Outcome(inv'[i]) = McpError("InternalError", "write")
                /\ Outcome(inv'[i]).url = <<>>
                /\ inv'[i].savedFiles = <<>>]_vars

C37_Witness ==
    /\ inv[1].pc = "done"
    /\ inv[1].result = McpError("InternalError", "write")
    /\ <<1, 1>> \in blobs
    /\ <<1, 2>> \notin localFiles

\* the wrapper process receives a signal in this step
SignalReceived == Len(launcher'.received) = Len(launcher.received) + 1

\* C38: a supervising wrapper has not exited while its child has not; a
\* SIGINT or SIGTERM it receives is passed to the child and leaves the
\* wrapper running; once the child has exited the wrapper exits.
C38_ParentOutlivesChild ==
    /\ [](launcher.state = "Supervising" /\ launcher.exited
             => launcher.child = "exited")
    /\ [][launcher.state = "Supervising" /\ SignalReceived =>
             /\ launcher'.killed =
                   Append(launcher.killed, launcher'.received[Len(launcher'.received)])
             /\ launcher'.exited = launcher.exited
             /\ launcher'.child = launcher.child
             /\ ~launcher'.exited]_vars
    /\ (launcher.state = "Supervising" /\ launcher.child = "exited"
           ~> launcher.exited)

C38_Witness ==
    /\ launcher.state = "Supervising"
    /\ Len(launcher.received) = MaxSignals
    /\ launcher.killed = launcher.received
    /\ launcher.child = "exited"
    /\ launcher.exited

\* the program counters at which an invocation waits for an external call
ExternalCalls == {"awaitInit", "awaitPrimary", "awaitRef", "awaitModel",
                  "awaitMkdir", "awaitUpload", "awaitWrite"}

\* the image tool invocation of slot i has started and has not returned
InFlight(i) ==
    /\ inv[i].tool \in ImageTools
    /\ inv[i].pc \notin {"idle", "done"}

\* the image tool invocation of slot i has returned a result or thrown an
\* McpError
Completed(i) ==
    /\ inv[i].tool \in ImageTools
    /\ inv[i].pc = "done"
    /\ \/ inv[i].result.kind = "ok"
       \/ inv[i].result.kind = "error" /\ inv[i].result.code \in ErrorCodes

\* C39: when every awaited call returns or throws, an image tool
\* invocation that has started ends with a result or an McpError; as long
\* as it waits for an external call it has no outcome and its
\* forceAggressiveGC has not started, and forceAggressiveGC starts only in
\* the step in which such a call returns or throws.
C39_Termination ==
    /\ \A i \in {1} : InFlight(i) ~> Completed(i)
    /\ [](\A i \in Slots :
             inv[i].pc \in ExternalCalls =>
                /\ inv[i].stage # "reclaim"
                /\ ~HasName(inv[i].log, "aggressive")
                /\ inv[i].result = NoResult
                /\ inv[i].after = NoResult)
    /\ [][\A i \in Slots :
             inv'[i].stage = "reclaim" /\ inv[i].stage # "reclaim" =>
                /\ inv[i].pc \in ExternalCalls
                /\ HasName(inv'[i].log, "aggressive")]_vars

C39_Witness ==
    /\ Completed(1)
    /\ inv[1].result.kind = "ok"
    /\ Has(inv[1].log, Ev("yield", GCPasses))
    /\ <<1, 1>> \in blobs
    /\ <<1, 2>> \in localFiles

====
